---- MODULE Spec2Model ----
(***************************************************************************)
(* LEON3 debug driver: the AHBJTAG bridge (ahbjtag.rs), the DSU3 register  *)
(* layer (dsu3.rs, communication_interface.rs) and the core facade         *)
(* (mod.rs), as a state machine.                                           *)
(*                                                                         *)
(* One step of the machine is either a call of a public operation (which   *)
(* performs the operation's argument checks) or one JTAG register shift    *)
(* issued by the operation in progress; the probe's answer to a shift is   *)
(* chosen by the environment.                                              *)
(*                                                                         *)
(* Numbers wider than 31 bits (u32 addresses and data, usize byte counts)  *)
(* are held as pairs <<hi, lo>> standing for hi * 2^16 + lo, lo < 2^16.    *)
(***************************************************************************)
EXTENDS Integers, Sequences, FiniteSets, TLC

VARIABLES
    hostLittle,   \* the build's target_endian: TRUE = little-endian host
    state,        \* AhbJtagState: the open transaction's kind and size
    pc,           \* position of the bridge operation: "idle", "adata", "ddata", "done"
    op,           \* the bridge operation in progress (or the last one)
    idx,          \* index of the element being transferred
    elapsed,      \* start_time.elapsed() of the DDATA poll loop in progress
    rbuf,         \* elements read so far by the operation in progress
    outcome,      \* what the last finished bridge operation returned
    log,          \* probe traffic of the current top-level operation
    pollStart,    \* state as it was when the DDATA poll loop in progress began
    mem,          \* target memory: the bytes written, by address
    lastWrite,    \* the last completed write: api, address, values; the write calls made
    task,         \* the facade operation in progress or just returned
    coreInit,     \* Leon3CoreState.initialized
    taskLog,      \* what the facade operations have done so far
    fac,          \* the core-control operation in progress: its arguments and locals
    bus,          \* the bus accesses the core-control operation has completed
    fres,         \* what the last finished core-control operation returned
    rid,          \* a 16-bit RegisterId handed to the decoder
    decoded,      \* what the decoder made of rid
    enc           \* a Leon3RegisterId handed to to_u16, and the id it made

\* the variables of the core-control operations and of the register decoder
facadeVars == <<fac, bus, fres, rid, decoded, enc>>

vars == <<hostLittle, state, pc, op, idx, elapsed, rbuf, outcome, log,
          pollStart, mem, lastWrite, task, coreInit, taskLog,
          fac, bus, fres, rid, decoded, enc>>

(***************************************************************************)
(* Bounds of the model.                                                    *)
(***************************************************************************)
\* longest array, in elements, of a 8/16/32-bit call
MaxLen == 3
\* longest array, in 64-bit elements, of a 64-bit call
MaxLen64 == 2
\* longest duration of one register shift, in clock units
MaxShiftTime == 2
\* longest array, in 32-bit words, of a call against the RAM target
MaxMemWords == 2
\* number of write calls made against the RAM target in a behaviour
MaxMemWrites == 1
\* number of times a core is attached in a behaviour
MaxAttach == 2

(***************************************************************************)
(* Program constants.                                                      *)
(***************************************************************************)
ADATA_LEN == 35
DDATA_LEN == 33
\* Duration::from_secs(2), in clock units
JTAG_TIMEOUT == 2
\* the burst boundary of the chunk_by key
BOUNDARY == 1024
\* longest deadline, in ms, handed to halt
MaxTimeout == 2
\* longest time, in ms, a bus access of a poll takes
MaxBusTime == 1
\* longest time, in ms, the 1 ms sleep between two polls takes
MaxSleep == 2

\* offset of DSU_CTRL in the DSU3 block of a core
DSU_CTRL_OFFSET == 0
\* offsets of DSU_BRSS (0x20), DSU_DBGM (0x24), DSU_DTR (0x400020), PSR (0x400004)
DSU_BRSS_OFFSET == 32
DSU_DBGM_OFFSET == 36
DSU_DTR_OFFSET == 4194336
PSR_OFFSET == 4194308
\* offset of the program counter (0x400010) in the DSU3 block of a core
PC_OFFSET == 4194320
\* bit position of PW in DSU_CTRL
\* the offset of Y, and of the register file with its eight windows
Y_OFFSET == 4194304

REGFILE_OFFSET == 3145728

NWINDOWS == 8

CTRL_PW == 11
\* first bits of the BN and SS arrays of DSU_BRSS
BRSS_BN == 0
BRSS_SS == 16
\* the highest core index of a DSU3
MAX_CORE == 15
\* bit positions of DSU_CTRL
CTRL_HL == 10
CTRL_PE == 9
CTRL_DM == 6
CTRL_BW == 2

(***************************************************************************)
(* Fixed-width arithmetic on <<hi, lo>> pairs.                             *)
(***************************************************************************)
Carry(hi, lo) == <<hi + (lo \div 65536), lo % 65536>>

FromInt(n) == Carry(0, n)

\* u32::try_from(x).is_ok() / "fits 32 bits"
IsU32(w) == w[1] < 65536

AddW(a, b) == Carry(a[1] + b[1], a[2] + b[2])

MulW(a, k) == Carry(a[1] * k, a[2] * k)

SubOne(w) == IF w[2] > 0 THEN <<w[1], w[2] - 1>> ELSE <<w[1] - 1, 65535>>

LessEqW(a, b) == a[1] < b[1] \/ (a[1] = b[1] /\ a[2] <= b[2])

MaxW(a, b) == IF LessEqW(a, b) THEN b ELSE a

\* x / 1024 for a u32 x
DivBoundary(w) == w[1] * (65536 \div BOUNDARY) + (w[2] \div BOUNDARY)

\* k * 1024 as a u32
MulBoundary(k) == Carry(k \div (65536 \div BOUNDARY), (k % (65536 \div BOUNDARY)) * BOUNDARY)

\* u32::to_be_bytes
to_be_bytes(w) == <<w[1] \div 256, w[1] % 256, w[2] \div 256, w[2] % 256>>

\* u16::to_be_bytes
to_be_bytes16(h) == <<h \div 256, h % 256>>

\* the u32 whose big-endian bytes are b[1..4]
FromBeBytes(b) == <<b[1] * 256 + b[2], b[3] * 256 + b[4]>>

\* bit i of a u32
BitOf(w, i) == IF i < 16 THEN (w[2] \div (2 ^ i)) % 2 ELSE (w[1] \div (2 ^ (i - 16))) % 2

\* the u32 w with bit i set to b
WithBit(w, i, b) ==
    IF i < 16
    THEN <<w[1], w[2] + (b - BitOf(w, i)) * (2 ^ i)>>
    ELSE <<w[1] + (b - BitOf(w, i)) * (2 ^ (i - 16)), w[2]>>

(***************************************************************************)
(* ahbjtag.rs: encodings.                                                  *)
(***************************************************************************)
None == "None"

TransactionSize_encode(size) ==
    CASE size = "U8" -> 0
      [] size = "U16" -> 1
      [] size = "U32" -> 2

TransactionKind_encode(kind) ==
    CASE kind = "Read" -> 0
      [] kind = "Write" -> 1

Seq_encode(seq) ==
    CASE seq = "LastTransaction" -> 0
      [] seq = "ContinuingTransaction" -> 1

\* TransactionData is [size, value]: value is a <<hi, lo>> pair, hi = 0 for
\* U8 and U16
TransactionData(size, value) == [size |-> size, value |-> value]

TransactionData_encode(data) ==
    CASE data.size = "U8" -> <<data.value[2], 0, 0, 0>>
      [] data.size = "U16" -> to_be_bytes16(data.value[2]) \o <<0, 0>>
      [] data.size = "U32" -> to_be_bytes(data.value)

\* variant of AdataCmd that packs the size above the kind
AdataCmd_size_above_kind(address, kind, size) ==
    <<TransactionSize_encode(size) * 2 + TransactionKind_encode(kind)>>
        \o to_be_bytes(address)

\* the cmd buffer of write_adata
AdataCmd(address, kind, size) ==
    <<TransactionKind_encode(kind) * 4 + TransactionSize_encode(size)>>
        \o to_be_bytes(address)

\* the shift_in buffer of read_ddata_with_timeout
ReadShiftIn(seq) ==
    CASE seq = "LastTransaction" -> <<0, 0, 0, 0, 0>>
      [] seq = "ContinuingTransaction" -> <<1, 0, 0, 0, 0>>

\* the shift_in buffer of write_ddata_with_timeout
WriteShiftIn(data, seq) == <<Seq_encode(seq)>> \o TransactionData_encode(data)

\* response_bits[from..32].load_be() of a DDATA response whose low 32 bits
\* are the u32 `bits`: the slice lies in one storage word, so the value is
\* the number formed by bits from..31
LoadBits(bits, from) ==
    CASE from = 0 -> bits
      [] from = 16 -> <<0, bits[1]>>
      [] from = 24 -> <<0, bits[1] \div 256>>

transform_ddata_result(st, response) ==
    IF ~response.done
    THEN [tag |-> "Pending", data |-> TransactionData(None, <<0, 0>>)]
    ELSE IF st.kind = "Write"
    THEN [tag |-> "WriteDone", data |-> TransactionData(None, <<0, 0>>)]
    ELSE CASE st.size = "U32" ->
                [tag |-> "ReadDone", data |-> TransactionData("U32", LoadBits(response.data, 0))]
           [] st.size = "U16" ->
                [tag |-> "ReadDone", data |-> TransactionData("U16", LoadBits(response.data, 16))]
           [] st.size = "U8" ->
                [tag |-> "ReadDone", data |-> TransactionData("U8", LoadBits(response.data, 24))]
           [] OTHER -> [tag |-> "Panic", data |-> TransactionData(None, <<0, 0>>)]

check_out_of_bounds(address, num_bytes) ==
    IF num_bytes # <<0, 0>>
    THEN IF ~IsU32(num_bytes)
         THEN "Panic"
         ELSE IF IsU32(AddW(address, SubOne(num_bytes))) THEN "Ok" ELSE "OutOfBounds"
    ELSE "Ok"

\* variant of check_alignment that accepts every address
check_alignment_accepts_all(address, alignment) == "Ok"

check_alignment(address, alignment) ==
    IF address[2] % alignment # 0 THEN "MemoryNotAligned" ELSE "Ok"


\* variant of start_time_elapsed that keeps one clock for the operation
start_time_elapsed_of_operation(el) == el

\* start_time.elapsed() at the entry of the next read_ddata_with_timeout or
\* write_ddata_with_timeout, the poll loop before it having run for el:
\* start_time is taken anew
start_time_elapsed(el) == 0

\* variant of poll_expired for which no poll ever expires
poll_expired_never(el, timeout) == FALSE

\* Leon3Error::Timeout when `el`, the time since start_time, exceeds timeout
poll_expired(el, timeout) == el > timeout

NoState == [kind |-> None, size |-> None]

NoData == TransactionData(None, <<0, 0>>)

\* variant of write_adata that leaves an open transaction as it is
write_adata_keeps_open(st, kind, size, ok) ==
    IF ok /\ st.kind = None THEN [kind |-> kind, size |-> size] ELSE st

\* variant of write_adata that records the transaction before the shift is
\* answered
write_adata_records_first(st, kind, size, ok) ==
    [kind |-> kind, size |-> size]

\* write_adata: the state after the ADATA shift answered ok / with an error
write_adata(st, kind, size, ok) ==
    IF ok THEN [kind |-> kind, size |-> size] ELSE st

\* the assertion opening read_ddata_with_timeout
read_ddata_entry(st, seq) ==
    seq = "ContinuingTransaction" => st.size = "U32"

\* the assertions opening write_ddata_with_timeout
write_ddata_entry(st, data, seq) ==
    /\ seq = "ContinuingTransaction" => st.size = "U32"
    /\ data.size = st.size

\* variant of read_ddata_poll whose Timeout closes the open transaction
read_ddata_poll_timeout_clears(st, seq, response, el, timeout) ==
    IF response.err
    THEN [res |-> "DebugProbe", st |-> st, data |-> NoData]
    ELSE IF response.done
    THEN [res |-> "Ok",
          st |-> IF seq = "LastTransaction" THEN NoState ELSE st,
          data |-> transform_ddata_result(st, response).data]
    ELSE IF poll_expired(el, timeout)
    THEN [res |-> "Timeout", st |-> NoState, data |-> NoData]
    ELSE [res |-> "Continue", st |-> st, data |-> NoData]

\* variant of read_ddata_poll that gives up the word on Timeout and goes on
read_ddata_poll_timeout_moves_on(st, seq, response, el, timeout) ==
    IF response.err
    THEN [res |-> "DebugProbe", st |-> st, data |-> NoData]
    ELSE LET t == transform_ddata_result(st, response)
         IN CASE t.tag = "ReadDone" ->
                   [res |-> "Ok",
                    st |-> IF seq = "LastTransaction" THEN NoState ELSE st,
                    data |-> t.data]
              [] t.tag = "Pending" ->
                   IF poll_expired(el, timeout)
                   THEN [res |-> "Ok", st |-> st, data |-> TransactionData(st.size, <<0, 0>>)]
                   ELSE [res |-> "Continue", st |-> st, data |-> NoData]
              [] OTHER -> [res |-> "Panic", st |-> st, data |-> NoData]

\* one turn of the loop of read_ddata_with_timeout: the probe answered
\* `response`, `el` after start_time
read_ddata_poll(st, seq, response, el, timeout) ==
    IF response.err
    THEN [res |-> "DebugProbe", st |-> st, data |-> NoData]
    ELSE LET t == transform_ddata_result(st, response)
         IN CASE t.tag = "ReadDone" ->
                   [res |-> "Ok",
                    st |-> IF seq = "LastTransaction" THEN NoState ELSE st,
                    data |-> t.data]
              [] t.tag = "Pending" ->
                   [res |-> IF poll_expired(el, timeout) THEN "Timeout" ELSE "Continue",
                    st |-> st, data |-> NoData]
              [] OTHER -> [res |-> "Panic", st |-> st, data |-> NoData]

\* variant of write_ddata_poll that never closes the transaction
write_ddata_poll_keeps_open(st, seq, response, el, timeout) ==
    IF response.err
    THEN [res |-> "DebugProbe", st |-> st, data |-> NoData]
    ELSE IF response.done
    THEN [res |-> "Ok", st |-> st, data |-> NoData]
    ELSE [res |-> IF poll_expired(el, timeout) THEN "Timeout" ELSE "Continue",
          st |-> st, data |-> NoData]

\* one turn of the loop of write_ddata_with_timeout
write_ddata_poll(st, seq, response, el, timeout) ==
    IF response.err
    THEN [res |-> "DebugProbe", st |-> st, data |-> NoData]
    ELSE LET t == transform_ddata_result(st, response)
         IN CASE t.tag = "WriteDone" ->
                   [res |-> "Ok",
                    st |-> IF seq = "LastTransaction" THEN NoState ELSE st,
                    data |-> NoData]
              [] t.tag = "Pending" ->
                   [res |-> IF poll_expired(el, timeout) THEN "Timeout" ELSE "Continue",
                    st |-> st, data |-> NoData]
              [] OTHER -> [res |-> "Panic", st |-> st, data |-> NoData]

(***************************************************************************)
(* ahbjtag.rs: the chunked word loop of read32/write32_with_timeout.       *)
(***************************************************************************)
\* the chunk_by key of word word_idx (0-based)
\* variant of ChunkKey that puts every word in one chunk
ChunkKey_one_chunk(address, word_idx) == 0

ChunkKey(address, word_idx) == DivBoundary(AddW(address, FromInt(word_idx * 4)))

\* word i opens a chunk
ChunkFirst(address, i) == i = 0 \/ ChunkKey(address, i - 1) # ChunkKey(address, i)

\* word i closes a chunk of a vector of n words
ChunkLast(address, n, i) == i = n - 1 \/ ChunkKey(address, i + 1) # ChunkKey(address, i)

\* with_position() of word i within its chunk
Position(address, n, i) ==
    IF ChunkFirst(address, i)
    THEN IF ChunkLast(address, n, i) THEN "Only" ELSE "First"
    ELSE IF ChunkLast(address, n, i) THEN "Last" ELSE "Middle"

\* variant of SeqOfPosition that never ends a transaction
SeqOfPosition_always_continuing(position) == "ContinuingTransaction"

SeqOfPosition(position) ==
    IF position \in {"First", "Middle"}
    THEN "ContinuingTransaction"
    ELSE "LastTransaction"

\* variant of start_address that starts every run at its block's first byte
start_address_of_block(address, chunk_idx) == MulBoundary(chunk_idx)

start_address(address, chunk_idx) == MaxW(address, MulBoundary(chunk_idx))

(***************************************************************************)
(* ahbjtag.rs: the MemoryInterface operations.                             *)
(***************************************************************************)
ReadApis == {"read_64", "read_32", "read_16", "read_8"}

WriteApis == {"write_64", "write_32", "write_16", "write_8"}

Apis == ReadApis \cup WriteApis

ApiKind(api) == IF api \in ReadApis THEN "Read" ELSE "Write"

ApiSize(api) ==
    CASE api \in {"read_8", "write_8"} -> "U8"
      [] api \in {"read_16", "write_16"} -> "U16"
      [] OTHER -> "U32"

\* bytes per element of the operation's array
ApiWidth(api) ==
    CASE api \in {"read_8", "write_8"} -> 1
      [] api \in {"read_16", "write_16"} -> 2
      [] api \in {"read_32", "write_32"} -> 4
      [] OTHER -> 8

\* the checks an operation makes before its first shift, in the code's order
CallChecks(api, address, len) ==
    LET al == IF ApiWidth(api) > 1 THEN check_alignment(address, ApiWidth(api)) ELSE "Ok"
    IN IF al # "Ok" THEN al ELSE check_out_of_bounds(address, MulW(len, ApiWidth(api)))

\* a u64 is four 16-bit limbs, most significant first
HighWord(v) == <<v[1], v[2]>>

LowWord(v) == <<v[3], v[4]>>

\* data.align_to::<u32>(): the u32 slots, in host address order, of u64 values
align_to_u32(data, little) ==
    [j \in 1..(2 * Len(data)) |->
        LET v == data[(j + 1) \div 2]
        IN IF little
           THEN (IF j % 2 = 1 THEN LowWord(v) ELSE HighWord(v))
           ELSE (IF j % 2 = 1 THEN HighWord(v) ELSE LowWord(v))]

\* the u64 values held by u32 slots
from_u32_slots(words, little) ==
    [k \in 1..(Len(words) \div 2) |->
        IF little
        THEN words[2 * k] \o words[2 * k - 1]
        ELSE words[2 * k - 1] \o words[2 * k]]

\* word32_pair.swap(0, 1) over chunks_exact(2)
swap_pairs(words) ==
    [j \in 1..Len(words) |-> IF j % 2 = 1 THEN words[j + 1] ELSE words[j - 1]]

\* variant of write_64_words that sends the slots in host order
write_64_words_host_order(data, little) == align_to_u32(data, little)

\* the words write_64 hands to write32_with_timeout
write_64_words(data, little) ==
    IF little THEN swap_pairs(align_to_u32(data, TRUE)) ELSE align_to_u32(data, FALSE)

\* the u64 values read_64 leaves in data after read32_with_timeout filled
\* the slots with `words`
read_64_values(words, little) ==
    from_u32_slots(IF little THEN swap_pairs(words) ELSE words, little)

\* the elements the bridge transfers for a call
WriteElems(api, data, little) ==
    IF api = "write_64" THEN write_64_words(data, little) ELSE data

ElemCount(api, len) == IF ApiWidth(api) = 8 THEN 2 * len ELSE len

ReadValues(api, words, little) ==
    IF api = "read_64" THEN read_64_values(words, little) ELSE words

\* variant of NeedsAdata that addresses every word anew
NeedsAdata_every_word(o, i) == TRUE

\* variant of NeedsAdata that addresses only the first word of a word array
NeedsAdata_first_word_only(o, i) ==
    IF ApiSize(o.api) = "U32" THEN i = 0 ELSE TRUE

\* whether element i of the operation is preceded by an ADATA shift
NeedsAdata(o, i) ==
    IF ApiSize(o.api) = "U32" THEN ChunkFirst(o.address, i) ELSE TRUE

\* variant of AdataAddress that addresses every byte or halfword at the
\* start of the array
AdataAddress_array_start(o, i) ==
    CASE ApiSize(o.api) = "U32" -> start_address(o.address, ChunkKey(o.address, i))
      [] ApiSize(o.api) = "U16" -> o.address
      [] ApiSize(o.api) = "U8" -> o.address

\* the address of that ADATA shift
AdataAddress(o, i) ==
    CASE ApiSize(o.api) = "U32" -> start_address(o.address, ChunkKey(o.address, i))
      [] ApiSize(o.api) = "U16" -> AddW(o.address, FromInt(2 * i))
      [] ApiSize(o.api) = "U8" -> AddW(o.address, FromInt(i))

\* variant of SeqFor that keeps the transaction open between the elements of
\* a byte or halfword array
SeqFor_continuing_elements(o, i) ==
    IF ApiSize(o.api) = "U32"
    THEN SeqOfPosition(Position(o.address, o.n, i))
    ELSE IF i + 1 < o.n THEN "ContinuingTransaction" ELSE "LastTransaction"

\* the Seq of the DDATA shifts of element i
SeqFor(o, i) ==
    IF ApiSize(o.api) = "U32"
    THEN SeqOfPosition(Position(o.address, o.n, i))
    ELSE "LastTransaction"


\* the TransactionData of element i of a write
ElemData(o, i) == TransactionData(ApiSize(o.api), o.wdata[i + 1])

\* the buffer of the DDATA shifts of element i
ShiftIn(o, i) ==
    IF ApiKind(o.api) = "Read"
    THEN ReadShiftIn(SeqFor(o, i))
    ELSE WriteShiftIn(ElemData(o, i), SeqFor(o, i))

(***************************************************************************)
(* The probe port and the target, as the driver's documentation describes  *)
(* them: write_register(addr, bits_in, bit_length) shifts the low          *)
(* bit_length bits of the buffer read as one big-endian number, so that    *)
(* ADATA is kind(1) | size(2) | address(32) and DDATA is SEQ(1) | data(32).*)
(***************************************************************************)
\* the bits above bit 31 of a shifted buffer
WireTop(bytes, len) == bytes[1] % (2 ^ (len - 32))

\* bits 31..0 of a shifted buffer
WireLow(bytes) == FromBeBytes(SubSeq(bytes, 2, 5))

WireKind(bytes) == WireTop(bytes, ADATA_LEN) \div 4

WireSize(bytes) == WireTop(bytes, ADATA_LEN) % 4

WireSeq(bytes) == WireTop(bytes, DDATA_LEN)

\* one entry of the traffic log: a shift and the probe's answer; elem is the
\* index of the element the shift serves
Shift(reg, bytes, len, elem, err, done, data) ==
    [reg |-> reg, bytes |-> bytes, len |-> len, elem |-> elem,
     err |-> err, done |-> done, data |-> data]

IsAdata(e) == e.reg = "ADATA"

IsDdata(e) == e.reg = "DDATA"

\* position of the last ADATA shift of a log (0 if none)
LastAdataPos(l) ==
    IF \E p \in 1..Len(l) : IsAdata(l[p])
    THEN CHOOSE p \in 1..Len(l) :
            IsAdata(l[p]) /\ \A q \in (p + 1)..Len(l) : ~IsAdata(l[q])
    ELSE 0

\* number of completed DDATA shifts after position p
DoneAfter(l, p) == Cardinality({q \in (p + 1)..Len(l) : IsDdata(l[q]) /\ l[q].done /\ ~l[q].err})

\* the target address served by the DDATA shift that follows log l: the
\* address of the last ADATA shift, advanced by one word per completed
\* transfer of the burst
TargetAddress(l) ==
    IF LastAdataPos(l) = 0
    THEN <<0, 0>>
    ELSE AddW(WireLow(l[LastAdataPos(l)].bytes), FromInt(4 * DoneAfter(l, LastAdataPos(l))))

\* the transfer size announced by the last ADATA shift
TargetSize(l) ==
    IF LastAdataPos(l) = 0 THEN 2 ELSE WireSize(l[LastAdataPos(l)].bytes)

\* the number of bytes of a transfer size as ADATA encodes it
SizeBytes(size) ==
    CASE size = 0 -> 1
      [] size = 1 -> 2
      [] size = 2 -> 4

\* what an unwritten byte of the target memory holds
InitialByte(address) == (address[2] * 37 + address[1] + 90) % 256

\* the target memory is byte addressed: the byte at an address
ByteAt(m, address) == IF address \in DOMAIN m THEN m[address] ELSE InitialByte(address)

\* the bytes address .. address + n - 1 of the target memory, lowest address
\* first
BytesAt(m, address, n) == [j \in 1..n |-> ByteAt(m, AddW(address, FromInt(j - 1)))]

\* the data field of a completed read of n bytes: the target is big-endian
\* and returns the value right-justified (byte in bits 0..7, halfword in bits
\* 0..15, word in bits 0..31)
MemRead(m, address, n) ==
    LET b == BytesAt(m, address, n)
    IN CASE n = 1 -> <<0, b[1]>>
         [] n = 2 -> <<0, b[1] * 256 + b[2]>>
         [] n = 4 -> <<b[1] * 256 + b[2], b[3] * 256 + b[4]>>

\* a completed write of n bytes: the target takes the value right-justified
\* from the data field `word` and stores it big-endian
MemWrite(m, address, n, word) ==
    LET b == to_be_bytes(word)
        at(a) == CHOOSE j \in 1..n : AddW(address, FromInt(j - 1)) = a
        written == {AddW(address, FromInt(j - 1)) : j \in 1..n}
    IN [a \in (DOMAIN m) \cup written |->
           IF a \in written THEN b[4 - n + at(a)] ELSE m[a]]

(***************************************************************************)
(* Steps of a bridge operation.                                            *)
(***************************************************************************)
Result(status, value, address, alignment) ==
    [status |-> status, value |-> value, address |-> address, alignment |-> alignment]

\* the operation in progress returns
Returns(status, value) ==
    /\ pc' = "done"
    /\ outcome' = Result(status, value, op.address, 0)

\* an operation is called: its checks, then its first loop turn is awaited;
\* found is the transaction the operation finds open, kept until the
\* operation's first DDATA shift
StartOp(api, address, len, data) ==
    LET chk == CallChecks(api, address, len)
        n == IF chk = "Ok" THEN ElemCount(api, len[2]) ELSE 0
    IN /\ op' = [api |-> api, address |-> address, len |-> len, n |-> n, data |-> data,
                 found |-> state,
                 wdata |-> IF chk = "Ok" /\ api \in WriteApis
                           THEN WriteElems(api, data, hostLittle)
                           ELSE <<>>]
       /\ idx' = 0
       /\ elapsed' = 0
       /\ rbuf' = <<>>
       /\ IF chk # "Ok"
          THEN /\ pc' = "done"
               /\ outcome' = Result(chk, <<>>, address,
                                    IF chk = "MemoryNotAligned" THEN ApiWidth(api) ELSE 0)
          ELSE IF n = 0
          THEN /\ pc' = "done"
               /\ outcome' = Result("Ok", <<>>, address, 0)
          ELSE /\ pc' = "adata"
               /\ outcome' = Result("Running", <<>>, address, 0)

\* the ADATA shift of element idx, answered ok or with a probe error
AdataStep(ok) ==
    /\ pc = "adata"
    /\ log' = Append(log, Shift("ADATA",
                                AdataCmd(AdataAddress(op, idx), ApiKind(op.api), ApiSize(op.api)),
                                ADATA_LEN, idx, ~ok, FALSE, <<0, 0>>))
    /\ state' = write_adata(state, ApiKind(op.api), ApiSize(op.api), ok)
    /\ IF ok
       THEN /\ pc' = "ddata"
            /\ elapsed' = 0
            /\ pollStart' = state'
            /\ UNCHANGED outcome
       ELSE /\ Returns("DebugProbe", <<>>)
            /\ UNCHANGED <<elapsed, pollStart>>
    /\ UNCHANGED <<hostLittle, op, idx, rbuf, task, coreInit, taskLog>>

\* one DDATA shift of element idx, taking d clock units and answered r
DdataStep(r, d) ==
    /\ pc = "ddata"
    /\ LET seq == SeqFor(op, idx)
           reading == ApiKind(op.api) = "Read"
           entryOk == IF reading
                      THEN read_ddata_entry(state, seq)
                      ELSE write_ddata_entry(state, ElemData(op, idx), seq)
           el == elapsed + d
           p == IF reading
                THEN read_ddata_poll(state, seq, r, el, JTAG_TIMEOUT)
                ELSE write_ddata_poll(state, seq, r, el, JTAG_TIMEOUT)
           words == IF reading /\ p.res = "Ok" THEN Append(rbuf, p.data.value) ELSE rbuf
       IN IF elapsed = 0 /\ ~entryOk
          THEN /\ Returns("Panic", <<>>)
               /\ UNCHANGED <<state, idx, elapsed, rbuf, log, pollStart>>
          ELSE /\ log' = Append(log, Shift("DDATA", ShiftIn(op, idx), DDATA_LEN, idx,
                                           r.err, r.done, r.data))
               /\ state' = p.st
               /\ rbuf' = words
               /\ CASE p.res = "Continue" ->
                         /\ elapsed' = el
                         /\ UNCHANGED <<pc, idx, outcome, pollStart>>
                    [] p.res = "Ok" /\ reading /\ p.data.size # ApiSize(op.api) ->
                         /\ Returns("Panic", <<>>)
                         /\ elapsed' = el
                         /\ UNCHANGED <<idx, pollStart>>
                    [] p.res = "Ok" /\ ~(reading /\ p.data.size # ApiSize(op.api))
                                    /\ idx + 1 = op.n ->
                         /\ Returns("Ok", ReadValues(op.api, words, hostLittle))
                         /\ elapsed' = el
                         /\ UNCHANGED <<idx, pollStart>>
                    [] p.res = "Ok" /\ ~(reading /\ p.data.size # ApiSize(op.api))
                                    /\ idx + 1 < op.n ->
                         /\ idx' = idx + 1
                         /\ pc' = IF NeedsAdata(op, idx + 1) THEN "adata" ELSE "ddata"
                         /\ elapsed' = start_time_elapsed(el)
                         /\ pollStart' = p.st
                         /\ UNCHANGED outcome
                    [] OTHER ->
                         /\ Returns(p.res, <<>>)
                         /\ elapsed' = el
                         /\ UNCHANGED <<idx, pollStart>>
    /\ op' = [op EXCEPT !.found = NoState]
    /\ UNCHANGED <<hostLittle, task, coreInit, taskLog>>

(***************************************************************************)
(* Inputs.                                                                 *)
(***************************************************************************)
\* 0x2, 0x3F4, 0x3F8, 0x3FC, 0x3FD, 0x3FE, 0xFFFF_FFF8, 0xFFFF_FFFC, 0xFFFF_FFFE,
\* 0xFFFF_FFFF
Addrs ==
    {<<0, 2>>, <<0, 1012>>, <<0, 1016>>, <<0, 1020>>, <<0, 1021>>, <<0, 1022>>,
     <<65535, 65528>>, <<65535, 65532>>, <<65535, 65534>>, <<65535, 65535>>}

\* an array length whose byte count is 2^32
Oversize(api) == <<65536 \div ApiWidth(api), 0>>

Lens(api) ==
    {FromInt(n) : n \in 0..(IF ApiWidth(api) = 8 THEN MaxLen64 ELSE MaxLen)}
        \cup {Oversize(api)}

Seeds == {0}

MemSeeds == {0, 1}

WordVal(s, i) == <<(4352 * i + 291 + 16384 * s) % 65536, (8704 * i + 17767 + s) % 65536>>

ElemVal(api, s, i) ==
    CASE ApiWidth(api) = 1 -> <<0, (18 + 17 * i + 64 * s) % 256>>
      [] ApiWidth(api) = 2 -> <<0, (291 + 4369 * i + 16384 * s) % 65536>>
      [] ApiWidth(api) = 4 -> WordVal(s, i)
      [] ApiWidth(api) = 8 -> WordVal(s, 2 * i) \o WordVal(s, 2 * i + 1)

\* the arrays a write of len elements may carry
DataFor(api, len, seeds) ==
    IF api \in ReadApis \/ len[1] # 0
    THEN {<<>>}
    ELSE {[i \in 1..len[2] |-> ElemVal(api, s, i)] : s \in seeds}

\* the answers of a probe to a DDATA shift against any target
ProbeResponses(kind) ==
    {[err |-> TRUE, done |-> FALSE, data |-> <<0, 0>>],
     [err |-> FALSE, done |-> FALSE, data |-> <<0, 0>>]}
        \cup {[err |-> FALSE, done |-> TRUE, data |-> v] :
                v \in IF kind = "Read" THEN {<<57005, 48879>>} ELSE {<<0, 0>>}}

NoResult == Result("None", <<>>, <<0, 0>>, 0)

NoTask == [name |-> "none", phase |-> "none", core |-> 0]

NoOp == [api |-> "none", address |-> <<0, 0>>, len |-> <<0, 0>>, n |-> 0,
         data |-> <<>>, wdata |-> <<>>, found |-> NoState]

NoWrite == [api |-> "none", address |-> <<0, 0>>, data |-> <<>>, calls |-> 0]

\* no core-control operation in progress; of an operation, val is the value
\* it holds in a local (the value to write, or the DSU_CTRL value read first)
NoFac == [name |-> "none", core |-> 0, phase |-> "none", timeout |-> 0, reg |-> "none",
          fn |-> "none", arg |-> <<0, 0>>, val |-> <<0, 0>>, clock |-> 0,
          creg |-> [class |-> "none", reg |-> "", n |-> 0]]

\* the result of a core-control operation: status is "Ok", an error or "Panic";
\* an Ok result carries a 32-bit value, a bool as <<0, 1>> / <<0, 0>>, or a
\* CoreStatus named by label
FRes(status, value, label) == [status |-> status, value |-> value, label |-> label]

NoFres == FRes("None", <<0, 0>>, "")

\* a register id as decoded: class is "IuCore", "IuSpecial", "Fpu", or
\* "InvalidRegisterId" for the error
Decoded(class, reg, n) == [class |-> class, reg |-> reg, n |-> n]

NoDecoded == Decoded("none", "", 0)

\* nothing handed to to_u16; made says that id is the id to_u16 returned
NoEnc == [reg |-> NoDecoded, id |-> 0, made |-> FALSE]

(***************************************************************************)
(* The bridge against an arbitrary target.                                 *)
(***************************************************************************)
BaseInit ==
    /\ hostLittle \in BOOLEAN
    /\ state = NoState
    /\ pc = "idle"
    /\ op = NoOp
    /\ idx = 0
    /\ elapsed = 0
    /\ rbuf = <<>>
    /\ outcome = NoResult
    /\ log = <<>>
    /\ pollStart = NoState
    /\ mem = <<>>
    /\ lastWrite = NoWrite
    /\ task = NoTask
    /\ coreInit = FALSE
    /\ taskLog = <<>>
    /\ fac = NoFac
    /\ bus = <<>>
    /\ fres = NoFres

Init ==
    /\ BaseInit
    /\ rid = 0
    /\ decoded = NoDecoded
    /\ enc = NoEnc

\* a MemoryInterface operation is called
Call ==
    \E api \in Apis, address \in Addrs :
        \E len \in Lens(api) :
            \E data \in DataFor(api, len, Seeds) :
                /\ pc = "idle"
                /\ task.name = "none"
                /\ StartOp(api, address, len, data)
                /\ log' = <<>>
                /\ UNCHANGED <<hostLittle, state, pollStart, mem, lastWrite, task,
                               coreInit, taskLog>>
                /\ UNCHANGED facadeVars

AdataShift ==
    \E ok \in BOOLEAN :
        /\ AdataStep(ok)
        /\ UNCHANGED <<mem, lastWrite>>
        /\ UNCHANGED facadeVars

DdataShift ==
    \E r \in ProbeResponses(ApiKind(op.api)), d \in 1..MaxShiftTime :
        /\ DdataStep(r, d)
        /\ UNCHANGED <<mem, lastWrite>>
        /\ UNCHANGED facadeVars

\* the caller takes the result of the finished operation; the operation's
\* locals and its traffic record are dropped
Return ==
    /\ pc = "done"
    /\ task.phase \in {"none", "returned"}
    /\ task' = NoTask
    /\ pc' = "idle"
    /\ op' = NoOp
    /\ idx' = 0
    /\ elapsed' = 0
    /\ rbuf' = <<>>
    /\ outcome' = NoResult
    /\ log' = <<>>
    /\ pollStart' = NoState
    /\ UNCHANGED <<hostLittle, state, mem, lastWrite, coreInit, taskLog>>
    /\ UNCHANGED facadeVars

Next == Call \/ AdataShift \/ DdataShift \/ Return

Spec == Init /\ [][Next]_vars

(***************************************************************************)
(* The bridge against a RAM that completes every transaction at once.      *)
(***************************************************************************)
\* 0x3F8, 0x3FC
MemAddrs == {<<0, 1016>>, <<0, 1020>>}

MemLens(api) == 1..(IF ApiWidth(api) = 8 THEN MaxMemWords \div 2 ELSE MaxMemWords)

MemCall ==
    \E api \in Apis, address \in MemAddrs :
        \E len \in MemLens(api) :
            \E data \in DataFor(api, FromInt(len), MemSeeds) :
                /\ pc = "idle"
                /\ task.name = "none"
                /\ api \in WriteApis => lastWrite.calls < MaxMemWrites
                /\ StartOp(api, address, FromInt(len), data)
                /\ log' = <<>>
                /\ lastWrite' = IF api \in WriteApis
                                THEN [NoWrite EXCEPT !.calls = lastWrite.calls + 1]
                                ELSE lastWrite
                /\ UNCHANGED <<hostLittle, state, pollStart, mem, task, coreInit, taskLog>>
                /\ UNCHANGED facadeVars

MemAdataShift ==
    /\ AdataStep(TRUE)
    /\ UNCHANGED <<mem, lastWrite>>
    /\ UNCHANGED facadeVars

\* the RAM answers a DDATA shift: a read returns the addressed bytes, a write
\* stores the value carried by the data field of the shift
MemDdataShift ==
    \E d \in 1..MaxShiftTime :
        LET reading == ApiKind(op.api) = "Read"
            n == SizeBytes(TargetSize(log))
            cell == MemRead(mem, TargetAddress(log), n)
        IN /\ DdataStep([err |-> FALSE, done |-> TRUE,
                         data |-> IF reading THEN cell ELSE <<0, 0>>], d)
           /\ mem' = IF ~reading /\ log' # log
                     THEN MemWrite(mem, TargetAddress(log), n,
                                   WireLow(log'[Len(log')].bytes))
                     ELSE mem
           /\ lastWrite' = IF ~reading /\ pc' = "done" /\ outcome'.status = "Ok"
                           THEN [api |-> op.api, address |-> op.address, data |-> op.data,
                                 calls |-> lastWrite.calls]
                           ELSE lastWrite
           /\ UNCHANGED facadeVars

MemNext == MemCall \/ MemAdataShift \/ MemDdataShift \/ Return

MemSpec == Init /\ [][MemNext]_vars

(***************************************************************************)
(* The core facade over the bridge: Leon3::new and core_halted.            *)
(***************************************************************************)
\* the DSU3 base address found by the plug-and-play scan: 0x9000_0000
DsuBase == <<36864, 0>>

\* the per-core stride of the DSU3 block: 0x10_0000
CoreStride == <<16, 0>>

Cores == {0, 15}

\* R::get_mmio_address_from_base(self.state.base_addr): the address of a
\* register type is the base address plus the offset of the type; no core
\* index takes part
get_mmio_address_from_base(base, offset) == AddW(base, FromInt(offset))

\* the address at offset `offset` of the DSU3 block of core k, by which the
\* register file and the special registers of a core are reached
CoreBlockAddress(k, offset) == AddW(AddW(DsuBase, MulW(CoreStride, k)), FromInt(offset))

\* variant of set_bw that leaves the register as read
set_bw_keeps_value(ctrl) == ctrl

\* DsuCtrl::set_bw(true)
set_bw(ctrl) == WithBit(ctrl, CTRL_BW, 1)

\* variant of halted_bits that looks at HL alone
halted_bits_hl_only(ctrl) == BitOf(ctrl, CTRL_HL) = 1

\* ctrl.hl() || ctrl.pe() || ctrl.dm()
halted_bits(ctrl) ==
    BitOf(ctrl, CTRL_HL) = 1 \/ BitOf(ctrl, CTRL_PE) = 1 \/ BitOf(ctrl, CTRL_DM) = 1

\* the DSU_CTRL values the target may hold: 0, HL|DM|BE|TE, HL|DM|BW|BE|TE
CtrlVals == {<<0, 0>>, <<0, 1091>>, <<0, 1095>>}

DsuResponses(kind) ==
    {[err |-> TRUE, done |-> FALSE, data |-> <<0, 0>>],
     [err |-> FALSE, done |-> FALSE, data |-> <<0, 0>>]}
        \cup {[err |-> FALSE, done |-> TRUE, data |-> v] :
                v \in IF kind = "Read" THEN CtrlVals ELSE {<<0, 0>>}}

\* Leon3::new up to the first bridge call of on_first_attach, or to its
\* return when the state is initialized already
Attach ==
    \E k \in Cores :
        /\ pc = "idle"
        /\ task.name = "none"
        /\ Len(taskLog) < MaxAttach
        /\ log' = <<>>
        /\ IF coreInit
           THEN /\ taskLog' = Append(taskLog, [core |-> k, first |-> FALSE,
                                               wrote |-> FALSE, value |-> <<0, 0>>])
                /\ pc' = "done"
                /\ outcome' = Result("Ok", <<>>, <<0, 0>>, 0)
                /\ task' = [name |-> "attach", phase |-> "returned", core |-> k]
                /\ UNCHANGED <<op, idx, elapsed, rbuf>>
           ELSE /\ StartOp("read_32", get_mmio_address_from_base(DsuBase, DSU_CTRL_OFFSET),
                        FromInt(1), <<>>)
                /\ task' = [name |-> "attach", phase |-> "read", core |-> k]
                /\ taskLog' = Append(taskLog, [core |-> k, first |-> TRUE,
                                               wrote |-> FALSE, value |-> <<0, 0>>])
        /\ UNCHANGED <<hostLittle, state, pollStart, mem, lastWrite, coreInit>>
        /\ UNCHANGED facadeVars

\* on_first_attach after a bridge call returned: the write of the modified
\* value, or the return to Leon3::new, which drops the result and sets the flag
AttachStep ==
    /\ pc = "done"
    /\ task.name = "attach"
    /\ task.phase # "returned"
    /\ IF outcome.status = "Panic"
       THEN /\ task' = [task EXCEPT !.phase = "returned"]
            /\ UNCHANGED <<pc, op, idx, elapsed, rbuf, outcome, coreInit, taskLog>>
       ELSE IF task.phase = "read" /\ outcome.status = "Ok"
       THEN /\ StartOp("write_32", op.address, FromInt(1), <<set_bw(outcome.value[1])>>)
            /\ task' = [task EXCEPT !.phase = "write"]
            /\ UNCHANGED <<coreInit, taskLog>>
       ELSE /\ coreInit' = TRUE
            /\ task' = [task EXCEPT !.phase = "returned"]
            /\ outcome' = Result("Ok", <<>>, op.address, 0)
            /\ taskLog' = [taskLog EXCEPT ![Len(taskLog)] =
                              [@ EXCEPT !.wrote = (task.phase = "write" /\ outcome.status = "Ok"),
                                        !.value = IF task.phase = "write" /\ outcome.status = "Ok"
                                                  THEN op.wdata[1]
                                                  ELSE <<0, 0>>]]
            /\ UNCHANGED <<pc, op, idx, elapsed, rbuf>>
    /\ UNCHANGED <<hostLittle, state, log, pollStart, mem, lastWrite>>
    /\ UNCHANGED facadeVars

\* core_halted on an attached core: the read of DSU_CTRL is called
CoreHalted ==
    \E k \in Cores :
        /\ pc = "idle"
        /\ task.name = "none"
        /\ coreInit
        /\ log' = <<>>
        /\ StartOp("read_32", get_mmio_address_from_base(DsuBase, DSU_CTRL_OFFSET),
                        FromInt(1), <<>>)
        /\ task' = [name |-> "core_halted", phase |-> "read", core |-> k]
        /\ UNCHANGED <<hostLittle, state, pollStart, mem, lastWrite, coreInit, taskLog>>
        /\ UNCHANGED facadeVars

\* core_halted after the read returned: the answer is <<0, 1>> for true and
\* <<0, 0>> for false
CoreHaltedStep ==
    /\ pc = "done"
    /\ task.name = "core_halted"
    /\ task.phase # "returned"
    /\ task' = [task EXCEPT !.phase = "returned"]
    /\ outcome' = IF outcome.status = "Ok"
                  THEN Result("Ok", <<<<0, IF halted_bits(outcome.value[1]) THEN 1 ELSE 0>>>>,
                              op.address, 0)
                  ELSE outcome
    /\ UNCHANGED <<hostLittle, state, pc, op, idx, elapsed, rbuf, log, pollStart, mem,
                   lastWrite, coreInit, taskLog>>
    /\ UNCHANGED facadeVars

DsuDdataShift ==
    \E r \in DsuResponses(ApiKind(op.api)), d \in 1..MaxShiftTime :
        /\ DdataStep(r, d)
        /\ UNCHANGED <<mem, lastWrite>>
        /\ UNCHANGED facadeVars

DsuNext ==
    \/ Attach
    \/ AttachStep
    \/ CoreHalted
    \/ CoreHaltedStep
    \/ AdataShift
    \/ DsuDdataShift
    \/ Return

DsuSpec == Init /\ [][DsuNext]_vars

(***************************************************************************)
(* dsu3.rs, communication_interface.rs, mod.rs: the DSU3 registers and the *)
(* core-control operations, over a bus (a MemoryInterface) whose accesses  *)
(* complete or fail as a whole.                                            *)
(***************************************************************************)
Regs == {"DsuCtrl", "DsuBrss", "DsuDbgm", "DsuDtr", "Psr"}

\* the offset of a register type in the DSU3 block of a core
Offset(reg) ==
    CASE reg = "DsuCtrl" -> DSU_CTRL_OFFSET
      [] reg = "DsuBrss" -> DSU_BRSS_OFFSET
      [] reg = "DsuDbgm" -> DSU_DBGM_OFFSET
      [] reg = "DsuDtr" -> DSU_DTR_OFFSET
      [] reg = "Psr" -> PSR_OFFSET
      [] reg = "PC" -> PC_OFFSET
      [] reg = "Y" -> Y_OFFSET

\* the address of register reg of core k: a register type of dsu3.rs is
\* addressed from the base address alone, PC and Y in the block of the core
AddressOf(reg, k) ==
    IF reg \in Regs
    THEN get_mmio_address_from_base(DsuBase, Offset(reg))
    ELSE CoreBlockAddress(k, Offset(reg))

\* DsuCtrl::pw, hl, pe, dm
pw(ctrl) == BitOf(ctrl, CTRL_PW) = 1

hl(ctrl) == BitOf(ctrl, CTRL_HL) = 1

pe(ctrl) == BitOf(ctrl, CTRL_PE) = 1

dm(ctrl) == BitOf(ctrl, CTRL_DM) = 1

\* DsuBrss::bn(k), ss(k), set_bn(k, true)
bn(brss, k) == BitOf(brss, BRSS_BN + k) = 1

\* variant of ss that looks at SS[0] whatever the core
ss_of_core_0(brss, k) == BitOf(brss, BRSS_SS) = 1

ss(brss, k) == BitOf(brss, BRSS_SS + k) = 1

\* variant of set_bn that writes BN[k] alone
set_bn_alone(brss, k) == WithBit(<<0, 0>>, BRSS_BN + k, 1)

set_bn(brss, k) == WithBit(brss, BRSS_BN + k, 1)

\* a bool as a result value
BoolVal(b) == IF b THEN <<0, 1>> ELSE <<0, 0>>

\* the closures handed to modify_dsu_reg: on_first_attach's, halt's, and one
\* that sets HL and returns whether it was set before
ModifyFns == {"set_bw", "set_bn", "swap_hl"}

\* the register value a closure leaves
FnValue(fn, v, k) ==
    CASE fn = "set_bw" -> set_bw(v)
      [] fn = "set_bn" -> set_bn(v, k)
      [] fn = "swap_hl" -> WithBit(v, CTRL_HL, 1)

\* the value a closure returns
FnResult(fn, v) ==
    CASE fn = "swap_hl" -> BoolVal(hl(v))
      [] OTHER -> <<0, 0>>

\* the core indices of the calls: the first, the last, one past the last
FacCores == {0, MAX_CORE, MAX_CORE + 1}

Timeouts == 0..MaxTimeout

\* DSU_CTRL values: every combination of PW, HL, PE and DM
CtrlBits(S) ==
    <<0, (IF CTRL_PW \in S THEN 2 ^ CTRL_PW ELSE 0) + (IF CTRL_HL \in S THEN 2 ^ CTRL_HL ELSE 0)
            + (IF CTRL_PE \in S THEN 2 ^ CTRL_PE ELSE 0) + (IF CTRL_DM \in S THEN 2 ^ CTRL_DM ELSE 0)>>

CtrlSet == {CtrlBits(S) : S \in SUBSET {CTRL_PW, CTRL_HL, CTRL_PE, CTRL_DM}}

\* DSU_BRSS values: nothing set; SS[0] and BN[0]; SS[15]
BrssVals == {<<0, 0>>, <<1, 1>>, <<32768, 0>>}

\* what the bus errors of an access may be
BusErrors == {"Timeout", "DebugProbe"}

\* what a read of a register may return
ReadVals(reg) ==
    CASE reg = "DsuCtrl" -> CtrlSet
      [] reg = "DsuBrss" -> BrssVals
      [] reg = "PC" -> {<<16384, 4096>>}
      [] reg = "Psr" -> {<<61568, 230>>, <<61568, 231>>}
      [] OTHER -> {<<61568, 230>>}

\* the values handed to write_dsu_reg
WriteVals == {<<0, 4>>, <<1, 1>>}

\* one completed bus access; at is the time since the start of
\* wait_for_core_halted at which a poll's access completed (0 for the others)
Access(kind, address, value, status, at) ==
    [kind |-> kind, address |-> address, value |-> value, status |-> status, at |-> at]

\* a core-control operation after a bus access: it returns r, or goes on as f
Done(f, r) == [fac |-> [f EXCEPT !.phase = "returned"], res |-> r]

Go(f) == [fac |-> f, res |-> NoFres]

Err(status) == FRes(status, <<0, 0>>, "")

\* variant of core_in_range that admits one index more
core_in_range_one_more(k) == k <= MAX_CORE + 1

\* the core index check of a DSU3 register access
core_in_range(k) == k <= MAX_CORE

\* Dsu3::read_dsu_reg after its bus read
read_dsu_reg(f, st, v) ==
    Done(f, IF st = "Ok" THEN FRes("Ok", v, f.reg) ELSE Err(st))

\* Dsu3::write_dsu_reg after its bus write
write_dsu_reg(f, st) ==
    Done(f, IF st = "Ok" THEN FRes("Ok", <<0, 0>>, "unit") ELSE Err(st))

\* variant of modify_dsu_reg that writes back the value as read
modify_dsu_reg_writes_value_read(f, st, v) ==
    IF st # "Ok"
    THEN Done(f, Err(st))
    ELSE IF f.phase = "read"
    THEN Go([f EXCEPT !.phase = "write", !.val = v, !.arg = FnResult(f.fn, v)])
    ELSE Done(f, FRes("Ok", f.arg, "result"))

\* Dsu3::modify_dsu_reg after its read (the closure runs, the write is next)
\* and after its write
modify_dsu_reg(f, st, v) ==
    IF st # "Ok"
    THEN Done(f, Err(st))
    ELSE IF f.phase = "read"
    THEN Go([f EXCEPT !.phase = "write",
                      !.val = FnValue(f.fn, v, f.core),
                      !.arg = FnResult(f.fn, v)])
    ELSE Done(f, FRes("Ok", f.arg, "result"))

\* core_halted after its read of DSU_CTRL
core_halted(f, st, v) ==
    Done(f, IF st = "Ok" THEN FRes("Ok", BoolVal(halted_bits(v)), "bool") ELSE Err(st))

\* core_in_debug_mode after its read of DSU_CTRL
core_in_debug_mode(f, st, v) ==
    Done(f, IF st = "Ok" THEN FRes("Ok", BoolVal(dm(v)), "bool") ELSE Err(st))

\* variant of deadline_passed that lets the deadline itself pass
deadline_passed_strict(el, timeout) == el > timeout

\* start.elapsed() >= timeout
deadline_passed(el, timeout) == el >= timeout

\* variant of poll_halted that consults the deadline before the poll's answer
poll_halted_deadline_first(f, st, v, d, sl) ==
    IF st # "Ok"
    THEN Done(f, Err(st))
    ELSE IF deadline_passed(f.clock + d, f.timeout)
    THEN Done(f, Err("Timeout"))
    ELSE IF halted_bits(v)
    THEN Done(f, FRes("Ok", <<0, 0>>, "unit"))
    ELSE Go([f EXCEPT !.clock = f.clock + d + sl])

\* one turn of the loop of wait_for_core_halted: core_halted answered after d,
\* and the sleep, if it comes to it, takes sl
poll_halted(f, st, v, d, sl) ==
    IF st # "Ok"
    THEN Done(f, Err(st))
    ELSE IF halted_bits(v)
    THEN Done(f, FRes("Ok", <<0, 0>>, "unit"))
    ELSE IF deadline_passed(f.clock + d, f.timeout)
    THEN Done(f, Err("Timeout"))
    ELSE Go([f EXCEPT !.clock = f.clock + d + sl])

\* Leon3::halt after a bus access: the read and the write of modify_dsu_reg,
\* the polls of wait_for_core_halted, the read of core_info
halt(f, st, v, d, sl) ==
    CASE f.phase = "read" ->
            IF st = "Ok"
            THEN Go([f EXCEPT !.phase = "write", !.val = set_bn(v, f.core)])
            ELSE Done(f, Err(st))
      [] f.phase = "write" ->
            IF st = "Ok" THEN Go([f EXCEPT !.phase = "poll", !.clock = 0]) ELSE Done(f, Err(st))
      [] f.phase = "poll" ->
            LET w == poll_halted(f, st, v, d, sl)
            IN IF w.res.status = "Ok" THEN Go([f EXCEPT !.phase = "pc"]) ELSE w
      [] f.phase = "pc" ->
            Done(f, IF st = "Ok" THEN FRes("Ok", v, "CoreInformation") ELSE Err(st))

\* Leon3::status after a bus access: its own read of DSU_CTRL, the read of
\* core_halted, the read of DSU_BRSS
status(f, st, v) ==
    IF st # "Ok"
    THEN Done(f, Err(st))
    ELSE CASE f.phase = "ctrl" ->
                 IF pw(v)
                 THEN Done(f, FRes("Ok", <<0, 0>>, "Sleeping"))
                 ELSE Go([f EXCEPT !.phase = "halted", !.val = v])
           [] f.phase = "halted" ->
                 IF halted_bits(v)
                 THEN Go([f EXCEPT !.phase = "brss"])
                 ELSE Done(f, FRes("Ok", <<0, 0>>, "Running"))
           [] f.phase = "brss" ->
                 Done(f, FRes("Ok", <<0, 0>>,
                              IF pe(f.val) THEN "Halted(Exception)"
                              ELSE IF ss(v, f.core) THEN "Halted(Step)"
                              ELSE "Halted(Unknown)"))

\* Psr::cwp
cwp(psr) == psr[2] % 32

\* the offset in the register file of register n of a bank, seen through
\* window w: the out, local and in registers of a window follow one another,
\* the in registers of a window being the out registers of the next, and the
\* globals follow the windows
SlotOffset(bank, n, w) ==
    REGFILE_OFFSET +
        (CASE bank = "O" -> (w * 64 + 32 + n * 4) % (NWINDOWS * 64)
           [] bank = "L" -> (w * 64 + 64 + n * 4) % (NWINDOWS * 64)
           [] bank = "I" -> (w * 64 + 96 + n * 4) % (NWINDOWS * 64)
           [] bank = "G" -> NWINDOWS * 64 + n * 4)

CoreRegOps == {"read_core_reg", "write_core_reg"}

\* the registers handed to read_core_reg and write_core_reg; an FPU register
\* makes them read_fpu_reg and write_fpu_reg
CoreRegs ==
    {Decoded("IuCore", "G", 1), Decoded("IuCore", "O", 7), Decoded("IuCore", "L", 0),
     Decoded("IuCore", "I", 3), Decoded("IuSpecial", "Y", 0), Decoded("IuSpecial", "PSR", 0),
     Decoded("IuSpecial", "PC", 0)}

\* variant of FirstCorePhase that goes to the register without reading PSR
FirstCorePhase_no_psr(creg) == IF creg.class = "IuCore" THEN "slot" ELSE "special"

\* the phase in which read_core_reg and write_core_reg await their first bus
\* access: the read of PSR for an IuCore register
FirstCorePhase(creg) == IF creg.class = "IuCore" THEN "psr" ELSE "special"

\* read_core_reg after a bus access: the read of PSR, the read of the
\* register
read_core_reg(f, st, v) ==
    IF st # "Ok"
    THEN Done(f, Err(st))
    ELSE IF f.phase = "psr"
    THEN Go([f EXCEPT !.phase = "slot", !.arg = <<0, cwp(v)>>])
    ELSE Done(f, FRes("Ok", v, "u32"))

\* write_core_reg after a bus access: the read of PSR, the write of the
\* register
write_core_reg(f, st, v) ==
    IF st # "Ok"
    THEN Done(f, Err(st))
    ELSE IF f.phase = "psr"
    THEN Go([f EXCEPT !.phase = "slot", !.arg = <<0, cwp(v)>>])
    ELSE Done(f, FRes("Ok", <<0, 0>>, "unit"))

\* the operations whose body is todo!()
Unimplemented ==
    {"run", "reset", "reset_and_halt", "step", "available_breakpoint_units",
     "hw_breakpoints", "enable_breakpoints", "set_hw_breakpoint", "clear_hw_breakpoint",
     "hw_breakpoints_enabled", "read_fpu_reg", "write_fpu_reg"}

RegOps == {"read_dsu_reg", "write_dsu_reg", "modify_dsu_reg"}

FacOps ==
    RegOps \cup {"core_halted", "core_in_debug_mode", "wait_for_core_halted", "halt", "status"}
        \cup CoreRegOps \cup Unimplemented

\* the register type a closure takes
FnReg(fn) == IF fn = "set_bn" THEN "DsuBrss" ELSE "DsuCtrl"

\* the phase in which an operation awaits its first bus access
FirstPhase(name) ==
    CASE name = "write_dsu_reg" -> "write"
      [] name = "status" -> "ctrl"
      [] name = "wait_for_core_halted" -> "poll"
      [] OTHER -> "read"

\* the register of the bus access an operation awaits
PendingReg(f) ==
    CASE f.name \in RegOps -> f.reg
      [] f.name \in {"core_halted", "core_in_debug_mode", "wait_for_core_halted"} -> "DsuCtrl"
      [] f.name = "halt" ->
            (CASE f.phase \in {"read", "write"} -> "DsuBrss"
               [] f.phase = "poll" -> "DsuCtrl"
               [] f.phase = "pc" -> "PC")
      [] f.name = "status" -> IF f.phase = "brss" THEN "DsuBrss" ELSE "DsuCtrl"
      [] f.name \in CoreRegOps ->
            (CASE f.phase = "psr" -> "Psr"
               [] f.phase = "slot" -> "Slot"
               [] f.phase = "special" -> IF f.creg.reg = "PSR" THEN "Psr" ELSE f.creg.reg)

PendingKind(f) ==
    IF f.phase = "write" \/ (f.name = "write_core_reg" /\ f.phase \in {"slot", "special"})
    THEN "Write"
    ELSE "Read"

PendingAddress(f) ==
    IF PendingReg(f) = "Slot"
    THEN CoreBlockAddress(f.core, SlotOffset(f.creg.reg, f.creg.n, f.arg[2]))
    ELSE AddressOf(PendingReg(f), f.core)

\* the operation goes on after its pending bus access ended with status st
\* (and value v, for a read)
Continue(f, st, v, d, sl) ==
    CASE f.name = "read_dsu_reg" -> read_dsu_reg(f, st, v)
      [] f.name = "write_dsu_reg" -> write_dsu_reg(f, st)
      [] f.name = "modify_dsu_reg" -> modify_dsu_reg(f, st, v)
      [] f.name = "core_halted" -> core_halted(f, st, v)
      [] f.name = "core_in_debug_mode" -> core_in_debug_mode(f, st, v)
      [] f.name = "wait_for_core_halted" -> poll_halted(f, st, v, d, sl)
      [] f.name = "halt" -> halt(f, st, v, d, sl)
      [] f.name = "status" -> status(f, st, v)
      [] f.name = "read_core_reg" -> read_core_reg(f, st, v)
      [] f.name = "write_core_reg" -> write_core_reg(f, st, v)

\* the variables of the bridge and of Leon3::new
bridgeVars == <<hostLittle, state, pc, op, idx, elapsed, rbuf, outcome, log, pollStart,
                mem, lastWrite, task, coreInit, taskLog>>

\* a core-control operation is called: a todo!() body panics, a core index
\* out of range is refused, anything else awaits its first bus access; for
\* run, val is what DSU_CTRL of the core holds at the call
FacadeCall ==
    /\ pc = "idle"
    /\ task.name = "none"
    /\ fac.name = "none"
    /\ \E name \in FacOps, k \in FacCores, t \in Timeouts, reg \in Regs, fn \in ModifyFns,
          w \in WriteVals, ctrl \in CtrlSet, creg \in CoreRegs :
           LET f == [name |-> name, core |-> k,
                     phase |-> IF name \in CoreRegOps
                               THEN FirstCorePhase(creg)
                               ELSE FirstPhase(name),
                     creg |-> IF name \in CoreRegOps THEN creg ELSE NoDecoded,
                     timeout |-> IF name \in {"halt", "wait_for_core_halted"} THEN t ELSE 0,
                     reg |-> CASE name = "modify_dsu_reg" -> FnReg(fn)
                               [] name \in RegOps -> reg
                               [] OTHER -> "none",
                     fn |-> IF name = "modify_dsu_reg" THEN fn ELSE "none",
                     arg |-> <<0, 0>>,
                     val |-> CASE name \in {"write_dsu_reg", "write_core_reg"} -> w
                               [] name = "run" -> ctrl
                               [] OTHER -> <<0, 0>>,
                     clock |-> 0]
               c == CASE name \in Unimplemented -> Done(f, Err("Panic"))
                      [] ~core_in_range(k) -> Done(f, Err("CoreOutOfRange"))
                      [] OTHER -> Go(f)
           IN /\ fac' = c.fac
              /\ fres' = c.res
    /\ bus' = <<>>
    /\ UNCHANGED <<rid, decoded, enc>>
    /\ UNCHANGED bridgeVars

\* the bus access the operation awaits completes or fails, and the operation
\* runs on to its next bus access or to its return
BusReply ==
    /\ fac.name # "none"
    /\ fac.phase # "returned"
    /\ \E st \in {"Ok"} \cup BusErrors, d \in 0..MaxBusTime, sl \in 1..MaxSleep :
          \E v \in ReadVals(PendingReg(fac)) :
              LET kind == PendingKind(fac)
                  value == IF kind = "Write" THEN fac.val ELSE IF st = "Ok" THEN v ELSE <<0, 0>>
                  c == Continue(fac, st, v, d, sl)
                  at == IF fac.phase = "poll" THEN fac.clock + d ELSE 0
              IN /\ bus' = Append(bus, Access(kind, PendingAddress(fac), value, st, at))
                 /\ fac' = c.fac
                 /\ fres' = c.res
    /\ UNCHANGED <<rid, decoded, enc>>
    /\ UNCHANGED bridgeVars

\* the caller takes the result of the finished core-control operation
FacadeReturn ==
    /\ fac.phase = "returned"
    /\ fac' = NoFac
    /\ bus' = <<>>
    /\ fres' = NoFres
    /\ UNCHANGED <<rid, decoded, enc>>
    /\ UNCHANGED bridgeVars

FacNext == FacadeCall \/ BusReply \/ FacadeReturn

\* the core-control operations do not depend on the host's byte order
FacInit == Init /\ ~hostLittle

FacSpec == FacInit /\ [][FacNext]_vars

(***************************************************************************)
(* registers.rs: decoding a RegisterId.                                    *)
(***************************************************************************)
InvalidRegisterId == Decoded("InvalidRegisterId", "", 0)

\* the class 0 arm of try_from: value.0 & 0xFF is the index, value.0 >> 8 the
\* bank
iu_core(value) ==
    LET n == value % 256
    IN IF n > 7
       THEN InvalidRegisterId
       ELSE CASE value \div 256 = 0 -> Decoded("IuCore", "G", n)
              [] value \div 256 = 1 -> Decoded("IuCore", "O", n)
              [] value \div 256 = 2 -> Decoded("IuCore", "L", n)
              [] value \div 256 = 3 -> Decoded("IuCore", "I", n)
              [] OTHER -> InvalidRegisterId

\* variant of iu_special whose ASR range is 32..=48
iu_special_inclusive(value) ==
    LET n == value % 256
    IN CASE n = 0 -> Decoded("IuSpecial", "Y", 0)
         [] n = 1 -> Decoded("IuSpecial", "PSR", 0)
         [] n = 2 -> Decoded("IuSpecial", "WIM", 0)
         [] n = 3 -> Decoded("IuSpecial", "TBR", 0)
         [] n = 4 -> Decoded("IuSpecial", "PC", 0)
         [] n = 5 -> Decoded("IuSpecial", "NPC", 0)
         [] n = 6 -> Decoded("IuSpecial", "FSR", 0)
         [] n = 7 -> Decoded("IuSpecial", "CPSR", 0)
         [] n >= 32 /\ n <= 48 -> Decoded("IuSpecial", "ASR", n - 16)
         [] OTHER -> InvalidRegisterId

\* the class 1 arm of try_from: value.0 & 0xFF is the selector
iu_special(value) ==
    LET n == value % 256
    IN CASE n = 0 -> Decoded("IuSpecial", "Y", 0)
         [] n = 1 -> Decoded("IuSpecial", "PSR", 0)
         [] n = 2 -> Decoded("IuSpecial", "WIM", 0)
         [] n = 3 -> Decoded("IuSpecial", "TBR", 0)
         [] n = 4 -> Decoded("IuSpecial", "PC", 0)
         [] n = 5 -> Decoded("IuSpecial", "NPC", 0)
         [] n = 6 -> Decoded("IuSpecial", "FSR", 0)
         [] n = 7 -> Decoded("IuSpecial", "CPSR", 0)
         [] n >= 32 /\ n < 48 -> Decoded("IuSpecial", "ASR", n - 16)
         [] OTHER -> InvalidRegisterId

\* TryFrom<RegisterId> for Leon3RegisterId, of a 16-bit value
try_from(value) ==
    CASE value \div 4096 = 0 -> iu_core(value)
      [] value \div 4096 = 1 -> iu_special(value)
      [] value \div 4096 = 2 -> Decoded("Fpu", "F", value % 256)
      [] OTHER -> InvalidRegisterId

\* Leon3RegisterId::to_u16 (the operands of each | have no bit in common)
to_u16(self) ==
    CASE self.class = "IuCore" ->
           0 + (CASE self.reg = "G" -> 0 + self.n
                  [] self.reg = "O" -> 256 + self.n
                  [] self.reg = "L" -> 512 + self.n
                  [] self.reg = "I" -> 768 + self.n)
      [] self.class = "IuSpecial" ->
           4096 + (CASE self.reg = "Y" -> 0
                     [] self.reg = "PSR" -> 1
                     [] self.reg = "WIM" -> 2
                     [] self.reg = "TBR" -> 3
                     [] self.reg = "PC" -> 4
                     [] self.reg = "NPC" -> 5
                     [] self.reg = "FSR" -> 6
                     [] self.reg = "CPSR" -> 7
                     [] self.reg = "ASR" -> 16 + self.n)
      [] self.class = "Fpu" -> 8192 + self.n

\* every 16-bit RegisterId
RegIds == 0..65535

\* the registers of the valid ranges
Registers ==
    {Decoded("IuCore", b, n) : b \in {"G", "O", "L", "I"}, n \in 0..7}
    \cup {Decoded("IuSpecial", r, 0) :
             r \in {"Y", "PSR", "WIM", "TBR", "PC", "NPC", "FSR", "CPSR"}}
    \cup {Decoded("IuSpecial", "ASR", n) : n \in 16..31}
    \cup {Decoded("Fpu", "F", n) : n \in 0..255}

\* the decoder is handed an id, or to_u16 a register
RegInit ==
    /\ BaseInit
    /\ ~hostLittle
    /\ decoded = NoDecoded
    /\ \/ rid \in RegIds /\ enc = NoEnc
       \/ rid = 0 /\ enc \in {[reg |-> r, id |-> 0, made |-> FALSE] : r \in Registers}

\* the decoder is applied to rid
Decode ==
    /\ enc.reg = NoDecoded \/ enc.made
    /\ decoded = NoDecoded
    /\ decoded' = try_from(rid)
    /\ UNCHANGED <<rid, enc, fac, bus, fres>>
    /\ UNCHANGED bridgeVars

\* RegisterId::from: the register handed over is encoded and its id handed to
\* the decoder
EncodeRegister ==
    /\ enc.reg # NoDecoded
    /\ ~enc.made
    /\ enc' = [enc EXCEPT !.id = to_u16(enc.reg), !.made = TRUE]
    /\ rid' = to_u16(enc.reg)
    /\ UNCHANGED <<decoded, fac, bus, fres>>
    /\ UNCHANGED bridgeVars

\* RegisterId::from of the register the decoder made of rid
EncodeDecoded ==
    /\ enc = NoEnc
    /\ decoded \notin {NoDecoded, InvalidRegisterId}
    /\ enc' = [reg |-> decoded, id |-> to_u16(decoded), made |-> TRUE]
    /\ UNCHANGED <<rid, decoded, fac, bus, fres>>
    /\ UNCHANGED bridgeVars

RegNext == Decode \/ EncodeRegister \/ EncodeDecoded

RegSpec == RegInit /\ [][RegNext]_vars

\* the bridge as a running program: a pending register shift is performed and
\* answered, and a finished call returns to its caller
LiveSpec ==
    /\ Init
    /\ [][Next]_vars
    /\ WF_vars(AdataShift \/ DdataShift)
    /\ WF_vars(Return)

(***************************************************************************)
(* Properties of the bridge against an arbitrary target.                   *)
(***************************************************************************)
\* floor(a / 1024) of a 32-bit address
BlockOf(a) == a[1] * 64 + (a[2] \div 1024)

\* the address of word i of an array of words at address
WordAddress(address, i) == AddW(address, FromInt(4 * i))

\* the 1 KiB blocks touched by n words at address
WordBlocks(address, n) == {BlockOf(WordAddress(address, i)) : i \in 0..(n - 1)}

AdataCount(l) == Cardinality({p \in 1..Len(l) : IsAdata(l[p])})

Finished == pc = "done"

WordOp == op.api \in {"read_32", "write_32", "read_64", "write_64"}

\* C1: a word read or write in which every word completes issues exactly as
\* many ADATA shifts as its words touch distinct 1 KiB blocks, and no shift at
\* all when it has no word
C1_AdataPerBlock ==
    (Finished /\ WordOp /\ outcome.status = "Ok") =>
        /\ AdataCount(log) = Cardinality(WordBlocks(op.address, op.n))
        /\ op.n = 0 => log = <<>>

\* a completed three-word op that crosses a boundary and issued two ADATA shifts
C1_Witness ==
    /\ Finished
    /\ op.api = "write_32"
    /\ outcome.status = "Ok"
    /\ op.n = 3
    /\ Cardinality(WordBlocks(op.address, op.n)) = 2
    /\ AdataCount(log) = 2

\* the log before its entry q
Before(q) == SubSeq(log, 1, q - 1)

\* C2: every DDATA shift serves a target address in the 1 KiB block of the
\* address of the ADATA shift it follows
C2_BurstInBlock ==
    \A q \in 1..Len(log) :
        IsDdata(log[q]) =>
            /\ LastAdataPos(Before(q)) > 0
            /\ BlockOf(TargetAddress(Before(q)))
                 = BlockOf(WireLow(log[LastAdataPos(Before(q))].bytes))

\* a DDATA shift for a later word of a burst, in an operation that needed a
\* second burst
C2_Witness ==
    /\ AdataCount(log) >= 2
    /\ \E q \in 1..Len(log) :
          /\ IsDdata(log[q])
          /\ DoneAfter(Before(q), LastAdataPos(Before(q))) >= 1

\* the entry q of the log serves a word that is not the last of its run:
\* a DDATA shift of another word follows with no ADATA shift in between
LaterWordInRun(q) ==
    \E r \in (q + 1)..Len(log) :
        /\ IsDdata(log[r])
        /\ log[r].elem # log[q].elem
        /\ \A t \in q..r : ~IsAdata(log[t])

\* word e of the operation is the last of its run: the last word of the
\* array, or the last word of its 1 KiB block
LastOfBlock(o, e) ==
    \/ e = o.n - 1
    \/ BlockOf(WordAddress(o.address, e + 1)) # BlockOf(WordAddress(o.address, e))

\* C3: every DDATA shift of a word that is not the last of its run carries
\* SEQ=1 and every DDATA shift of the last (or only) word of a run carries
\* SEQ=0, the runs being those of the array's blocks and, once the operation
\* has completed, those seen between the ADATA shifts of its traffic
C3_SeqFlags ==
    WordOp =>
        \A q \in 1..Len(log) :
            IsDdata(log[q]) =>
                /\ WireSeq(log[q].bytes) = (IF LastOfBlock(op, log[q].elem) THEN 0 ELSE 1)
                /\ (Finished /\ outcome.status = "Ok") =>
                      WireSeq(log[q].bytes) = (IF LaterWordInRun(q) THEN 1 ELSE 0)

\* a completed operation with a run of three words, one of them polled twice,
\* next to one with a run of one word
C3_Witness ==
    /\ Finished
    /\ WordOp
    /\ outcome.status = "Ok"
    /\ op.n = 3
    /\ AdataCount(log) = 1
    /\ \E q \in 1..Len(log) : IsDdata(log[q]) /\ ~log[q].done /\ WireSeq(log[q].bytes) = 1
    /\ \E q \in 1..Len(log) : IsDdata(log[q]) /\ ~log[q].done /\ WireSeq(log[q].bytes) = 0

\* addr + len * width - 1 > 0xFFFF_FFFF
PastEnd(o) ==
    /\ o.len # <<0, 0>>
    /\ ~IsU32(AddW(o.address, SubOne(MulW(o.len, ApiWidth(o.api)))))

\* C4 (as stated): every call whose last byte lies past 0xFFFF_FFFF fails with
\* OutOfBounds and emits no shift
C4_PastEndFailsOutOfBounds ==
    (Finished /\ op.api \in Apis /\ PastEnd(op)) =>
        /\ outcome.status = "OutOfBounds"
        /\ log = <<>>

\* a call of 2^32 bytes ends in the panic of check_out_of_bounds
C4_PanicReached ==
    /\ Finished
    /\ op.api = "read_8"
    /\ PastEnd(op)
    /\ outcome.status = "Panic"
    /\ log = <<>>

\* C5: a call of width 2, 4 or 8 at an address that is not a multiple of the
\* width fails with MemoryNotAligned carrying the address and the width and
\* emits no shift; a byte call never fails with MemoryNotAligned
C5_Misaligned ==
    (Finished /\ op.api \in Apis) =>
        /\ (ApiWidth(op.api) > 1 /\ op.address[2] % ApiWidth(op.api) # 0) =>
              /\ outcome.status = "MemoryNotAligned"
              /\ outcome.address = op.address
              /\ outcome.alignment = ApiWidth(op.api)
              /\ log = <<>>
        /\ ApiWidth(op.api) = 1 => outcome.status # "MemoryNotAligned"

\* a halfword call at an odd address was refused
C5_Witness ==
    /\ Finished
    /\ op.api = "write_16"
    /\ op.address[2] % 2 = 1
    /\ outcome.status = "MemoryNotAligned"
    /\ outcome.alignment = 2
    /\ log = <<>>

\* C7: when an operation ends in Timeout the open-transaction state is what
\* it was when the timed-out DDATA poll began
C7_TimeoutKeepsState ==
    (Finished /\ outcome.status = "Timeout") =>
        /\ state = pollStart
        /\ state = [kind |-> ApiKind(op.api), size |-> ApiSize(op.api)]

\* a read timed out and left the Read / U16 transaction open
C7_Witness ==
    /\ Finished
    /\ outcome.status = "Timeout"
    /\ op.api = "read_16"
    /\ state = [kind |-> "Read", size |-> "U16"]
    /\ pollStart = state

\* the step is a DDATA shift answered DONE=0 without a probe error
PendingShift ==
    /\ pc = "ddata"
    /\ Len(log') = Len(log) + 1
    /\ ~log'[Len(log')].done
    /\ ~log'[Len(log')].err

\* C6: a DDATA shift answered DONE=0 later than the timeout after the poll
\* began ends the call with Timeout, one answered DONE=0 earlier leaves the
\* call polling, and a call in progress always comes to an end
C6_PollingEnds ==
    /\ [][PendingShift =>
            IF elapsed' > JTAG_TIMEOUT
            THEN pc' = "done" /\ outcome'.status = "Timeout"
            ELSE pc' = "ddata" /\ elapsed' > elapsed]_vars
    /\ (pc \in {"adata", "ddata"}) ~> (pc = "done")

\* a call that polled twice without seeing DONE and gave up on the third poll
C6_Witness ==
    /\ Finished
    /\ outcome.status = "Timeout"
    /\ elapsed > JTAG_TIMEOUT
    /\ Len(log) = 4
    /\ \A q \in 2..4 : IsDdata(log[q]) /\ ~log[q].done /\ ~log[q].err

(***************************************************************************)
(* Properties of the bridge against the RAM target.                        *)
(***************************************************************************)
\* the write call of the width of a read call
WriteOf(api) ==
    CASE api = "read_8" -> "write_8"
      [] api = "read_16" -> "write_16"
      [] api = "read_32" -> "write_32"
      [] api = "read_64" -> "write_64"
      [] OTHER -> "none"

ShorterLen(a, b) == IF Len(a) < Len(b) THEN Len(a) ELSE Len(b)

\* C8: a read that completes after a write of the same width at the same
\* address, with no other write in between, returns the written values
C8_RoundTrip ==
    (/\ Finished
     /\ op.api \in ReadApis
     /\ outcome.status = "Ok"
     /\ lastWrite.api = WriteOf(op.api)
     /\ lastWrite.address = op.address) =>
        \A i \in 1..ShorterLen(outcome.value, lastWrite.data) :
            outcome.value[i] = lastWrite.data[i]

\* the halfword 0x1234 was written at 0x3F8 and a halfword read at 0x3F8
\* returned 0: the target stored bits 0..15 of the data field 0x1234_0000 and
\* the read took bits 16..31 of the field the target returned
C8_HalfwordLost ==
    /\ Finished
    /\ op.api = "read_16"
    /\ op.address = <<0, 1016>>
    /\ outcome.status = "Ok"
    /\ lastWrite.api = "write_16"
    /\ lastWrite.address = op.address
    /\ lastWrite.data[1] = <<0, 4660>>
    /\ BytesAt(mem, op.address, 2) = <<0, 0>>
    /\ outcome.value[1] = <<0, 0>>

\* the round trip of the word and 64-bit accesses
WordRoundTrip ==
    (/\ Finished
     /\ op.api \in {"read_32", "read_64"}
     /\ outcome.status = "Ok"
     /\ lastWrite.api = WriteOf(op.api)
     /\ lastWrite.address = op.address) =>
        \A i \in 1..ShorterLen(outcome.value, lastWrite.data) :
            outcome.value[i] = lastWrite.data[i]

\* the 32-bit word the RAM holds at address a
WordAt(a) == MemRead(mem, a, 4)

\* C9: after write_64 the word at the address of each value is its high half
\* and the word four bytes above is its low half, so that the byte at the
\* address of each value is its high byte, and a completed read_64
\* returns, for each value, word(a) * 2^32 + word(a + 4)
C9_BigEndian64 ==
    /\ lastWrite.api = "write_64" =>
          \A i \in 1..Len(lastWrite.data) :
              /\ WordAt(AddW(lastWrite.address, FromInt(8 * (i - 1))))
                    = HighWord(lastWrite.data[i])
              /\ WordAt(AddW(lastWrite.address, FromInt(8 * (i - 1) + 4)))
                    = LowWord(lastWrite.data[i])
              /\ ByteAt(mem, AddW(lastWrite.address, FromInt(8 * (i - 1))))
                    = HighWord(lastWrite.data[i])[1] \div 256
    /\ (Finished /\ op.api = "read_64" /\ outcome.status = "Ok") =>
          \A i \in 1..Len(outcome.value) :
              outcome.value[i] = WordAt(AddW(op.address, FromInt(8 * (i - 1))))
                                    \o WordAt(AddW(op.address, FromInt(8 * (i - 1) + 4)))

\* on a little-endian host a 64-bit value with two different halves was
\* written by write_64 and returned by read_64
C9_Witness ==
    /\ hostLittle
    /\ Finished
    /\ op.api = "read_64"
    /\ outcome.status = "Ok"
    /\ lastWrite.api = "write_64"
    /\ Len(outcome.value) = 1
    /\ outcome.value[1] = lastWrite.data[1]
    /\ HighWord(outcome.value[1]) # LowWord(outcome.value[1])
    /\ WordAt(op.address) = HighWord(outcome.value[1])

(***************************************************************************)
(* Properties of the core facade.                                          *)
(***************************************************************************)
IsWriteAdata(e) == IsAdata(e) /\ WireKind(e.bytes) = 1

IsReadAdata(e) == IsAdata(e) /\ WireKind(e.bytes) = 0

\* the traffic l holds a completed read of DSU_CTRL of core k followed by a
\* write of the value read with BW set, and entry w is the ADATA shift of
\* that write
RmwAt(l, k, w) ==
    /\ w >= 3
    /\ IsWriteAdata(l[w])
    /\ WireLow(l[w].bytes) = AddressOf("DsuCtrl", k)
    /\ IsReadAdata(l[1])
    /\ WireLow(l[1].bytes) = AddressOf("DsuCtrl", k)
    /\ \A q \in 2..(w - 1) : IsDdata(l[q]) /\ ~l[q].err
    /\ l[w - 1].done
    /\ \A q \in (w + 1)..Len(l) :
          /\ IsDdata(l[q])
          /\ BitOf(WireLow(l[q].bytes), CTRL_BW) = 1
          /\ WireLow(l[q].bytes) = WithBit(l[w - 1].data, CTRL_BW, 1)

\* no bus access of the traffic l failed or timed out
AllCompleted(l) ==
    /\ l # <<>>
    /\ \A q \in 1..Len(l) : ~l[q].err
    /\ l[Len(l)].done

AttachReturned == Finished /\ task.name = "attach" /\ task.phase = "returned"

\* C10: the first attach of a state reads DSU_CTRL and writes back the value
\* read with BW=1 (when its bus accesses complete, that is all its traffic);
\* no later attach or access of the state emits a write
C10_FirstAttach ==
    /\ \A i \in 1..Len(taskLog) :
          /\ taskLog[i].first <=> i = 1
          /\ taskLog[i].wrote => BitOf(taskLog[i].value, CTRL_BW) = 1
    /\ \A w \in 1..Len(log) :
          IsWriteAdata(log[w]) =>
              /\ Len(taskLog) = 1
              /\ RmwAt(log, taskLog[1].core, w)
    /\ (AttachReturned /\ Len(taskLog) = 1 /\ AllCompleted(log)) =>
          /\ taskLog[1].wrote
          /\ \E w \in 3..(Len(log) - 1) : RmwAt(log, taskLog[1].core, w)
    /\ (AttachReturned /\ Len(taskLog) > 1) => log = <<>>
    /\ coreInit => Len(taskLog) >= 1

\* the second attach of a state ended without traffic, after the first had
\* written DSU_CTRL with BW set over a value read with BW clear
C10_Witness ==
    /\ AttachReturned
    /\ Len(taskLog) = 2
    /\ log = <<>>
    /\ taskLog[1].wrote
    /\ taskLog[1].value = <<0, 1095>>
    /\ ~taskLog[2].first

(***************************************************************************)
(* Properties of the core-control operations.                              *)
(***************************************************************************)
\* the operation `name` has returned and its result is not yet taken
FacReturned(name) == fac.name = name /\ fac.phase = "returned"

\* entry e is a completed read of / write to register reg of core k
ReadOf(e, reg, k) ==
    e.kind = "Read" /\ e.status = "Ok" /\ e.address = AddressOf(reg, k)

WriteOf32(e, reg, k) ==
    e.kind = "Write" /\ e.status = "Ok" /\ e.address = AddressOf(reg, k)

\* a value of DSU_CTRL with HL (bit 10), PE (bit 9) or DM (bit 6) set
ShowsHalt(v) == BitOf(v, 10) = 1 \/ BitOf(v, 9) = 1 \/ BitOf(v, 6) = 1

\* the bus log holds a write of DSU_BRSS with BN[k] = 1 and, later, a read of
\* DSU_CTRL that shows the halt
HaltObservedAfterBn(k) ==
    \E i, j \in 1..Len(bus) :
        /\ i < j
        /\ WriteOf32(bus[i], "DsuBrss", k)
        /\ BitOf(bus[i].value, k) = 1
        /\ ReadOf(bus[j], "DsuCtrl", k)
        /\ ShowsHalt(bus[j].value)

AllAccessesOk == \A i \in 1..Len(bus) : bus[i].status = "Ok"

\* C11 as stated, for a halt of a core k <= 15 none of whose bus accesses
\* fails: Ok only after a read of DSU_CTRL that followed the write of
\* BN[k] = 1 showed HL, PE or DM; Timeout whenever no such read completed
\* before the deadline
C11_HaltOkOrTimeout ==
    (FacReturned("halt") /\ fac.core <= 15 /\ AllAccessesOk) =>
        /\ fres.status = "Ok" => HaltObservedAfterBn(fac.core)
        /\ (~\E j \in 1..Len(bus) :
                /\ ReadOf(bus[j], "DsuCtrl", fac.core)
                /\ ShowsHalt(bus[j].value)
                /\ bus[j].at < fac.timeout) => fres.status = "Timeout"

\* C11, amended: halt returns Ok only after a read of DSU_CTRL that followed
\* the write of BN[k] = 1 showed HL, PE or DM; when no bus access fails it
\* returns Timeout exactly when a read of DSU_CTRL that shows none of them
\* completes at or after the deadline, and that read is its last bus access
C11_HaltOutcome ==
    FacReturned("halt") =>
        /\ fres.status = "Ok" => HaltObservedAfterBn(fac.core)
        /\ AllAccessesOk =>
              \A j \in 1..Len(bus) :
                  (ReadOf(bus[j], "DsuCtrl", fac.core) /\ ~ShowsHalt(bus[j].value)) =>
                      /\ bus[j].at >= fac.timeout <=> j = Len(bus)
                      /\ j = Len(bus) => fres.status = "Timeout"
        /\ (AllAccessesOk /\ fres.status = "Timeout") =>
              /\ Len(bus) >= 3
              /\ ReadOf(bus[Len(bus)], "DsuCtrl", fac.core)
              /\ ~ShowsHalt(bus[Len(bus)].value)

\* a halt returned Ok on a halt it saw only after the deadline, a poll
\* before the deadline having seen the core running
C11_Witness ==
    /\ FacReturned("halt")
    /\ fres.status = "Ok"
    /\ fac.timeout > 0
    /\ \E i, j \in 1..Len(bus) :
          /\ i < j
          /\ ReadOf(bus[i], "DsuCtrl", fac.core) /\ ~ShowsHalt(bus[i].value)
          /\ bus[i].at < fac.timeout
          /\ ReadOf(bus[j], "DsuCtrl", fac.core) /\ ShowsHalt(bus[j].value)
          /\ bus[j].at >= fac.timeout

\* entry j of the bus log is an access of the given kind to register reg
IsAccess(j, kind, reg) ==
    bus[j].kind = kind /\ bus[j].address = AddressOf(reg, fac.core)

\* C12: the bus accesses of halt for core k are, in this order: one read of
\* DSU_BRSS; one write of DSU_BRSS of the value read with BN[k] set and no
\* other bit changed; reads of DSU_CTRL, each but the last showing none of HL,
\* PE, DM; one read of PC after a read of DSU_CTRL that showed one of them,
\* whose value halt returns.  A failed access is the last access, and halt
\* returns Ok only after the read of PC
C12_HaltSequence ==
    fac.name = "halt" =>
        /\ \A j \in 1..Len(bus) :
              /\ j = 1 => IsAccess(j, "Read", "DsuBrss")
              /\ j = 2 => /\ IsAccess(j, "Write", "DsuBrss")
                          /\ bus[j].value = WithBit(bus[1].value, fac.core, 1)
              /\ j >= 3 => \/ IsAccess(j, "Read", "DsuCtrl")
                           \/ /\ IsAccess(j, "Read", "PC")
                              /\ j = Len(bus)
                              /\ j >= 4
                              /\ IsAccess(j - 1, "Read", "DsuCtrl")
              /\ (j >= 3 /\ j < Len(bus)) =>
                    (ShowsHalt(bus[j].value) <=> IsAccess(j + 1, "Read", "PC"))
              /\ bus[j].status # "Ok" => j = Len(bus) /\ fac.phase = "returned"
        /\ (fac.phase = "returned" /\ fres.status = "Ok") =>
              /\ Len(bus) >= 4
              /\ IsAccess(Len(bus), "Read", "PC")
              /\ fres.value = bus[Len(bus)].value
        /\ (fac.phase = "returned" /\ Len(bus) >= 3 /\ AllAccessesOk
                /\ ~IsAccess(Len(bus), "Read", "PC")) => fres.status = "Timeout"

\* a halt of core 15 that wrote back a DSU_BRSS with other bits set, polled
\* DSU_CTRL twice, read PC and returned it
C12_Witness ==
    /\ FacReturned("halt")
    /\ fac.core = 15
    /\ fres.status = "Ok"
    /\ Len(bus) = 5
    /\ bus[1].value = <<32768, 0>>
    /\ bus[2].value = <<32768, 32768>>
    /\ ~ShowsHalt(bus[3].value)
    /\ ShowsHalt(bus[4].value)
    /\ fres.value = bus[5].value

\* every read of DSU_CTRL in the bus log returned c
CtrlHeld(c) ==
    \A j \in 1..Len(bus) : IsAccess(j, "Read", "DsuCtrl") => bus[j].value = c

\* the status that section 4.3.1 derives from DSU_CTRL = c and DSU_BRSS = b
\* for core k
DerivedStatus(c, b, k) ==
    IF BitOf(c, 11) = 1
    THEN "Sleeping"
    ELSE IF ShowsHalt(c)
    THEN (IF BitOf(c, 9) = 1 THEN "Halted(Exception)"
          ELSE IF BitOf(b, 16 + k) = 1 THEN "Halted(Step)"
          ELSE "Halted(Unknown)")
    ELSE "Running"

\* C13: a status() call whose bus accesses succeed and whose reads of
\* DSU_CTRL all return the same value c returns the status derived from c and
\* from the DSU_BRSS value b it read: Sleeping if PW; else, with HL, PE or DM
\* set, Halted(Exception) if PE, else Halted(Step) if SS[k], else
\* Halted(Unknown); else Running
C13_StatusDerivation ==
    (FacReturned("status") /\ AllAccessesOk /\ Len(bus) > 0 /\ CtrlHeld(bus[1].value)) =>
        /\ fres.status = "Ok"
        /\ fres.label = DerivedStatus(bus[1].value,
                                      IF Len(bus) >= 3 THEN bus[3].value ELSE <<0, 0>>,
                                      fac.core)
        /\ (ShowsHalt(bus[1].value) /\ BitOf(bus[1].value, 11) = 0) =>
              Len(bus) = 3 /\ IsAccess(3, "Read", "DsuBrss")

\* status() of core 15 returned Halted(Step) from a constant DSU_CTRL with DM
\* alone and a DSU_BRSS with SS[15]
C13_Witness ==
    /\ FacReturned("status")
    /\ fac.core = 15
    /\ Len(bus) = 3
    /\ bus[1].value = <<0, 64>>
    /\ CtrlHeld(bus[1].value)
    /\ bus[3].value = <<32768, 0>>
    /\ fres.label = "Halted(Step)"

\* TRUE as a result value is <<0, 1>>, FALSE is <<0, 0>>
IsTrue(v) == v = <<0, 1>>

IsFalse(v) == v = <<0, 0>>

\* C14: core_halted and core_in_debug_mode of a core k <= 15 make one bus
\* access, a read of DSU_CTRL; when it succeeds core_halted returns true if
\* the value read has HL, PE or DM set and false if not, and
\* core_in_debug_mode returns true if it has DM set and false if not
C14_HaltedAndDebugMode ==
    (fac.name \in {"core_halted", "core_in_debug_mode"} /\ fac.core <= 15) =>
        /\ Len(bus) <= 1
        /\ \A j \in 1..Len(bus) : IsAccess(j, "Read", "DsuCtrl")
        /\ fac.phase = "returned" =>
              /\ Len(bus) = 1
              /\ fres.status = bus[1].status
              /\ (fres.status = "Ok" /\ fac.name = "core_halted") =>
                    IF ShowsHalt(bus[1].value) THEN IsTrue(fres.value) ELSE IsFalse(fres.value)
              /\ (fres.status = "Ok" /\ fac.name = "core_in_debug_mode") =>
                    IF BitOf(bus[1].value, 6) = 1
                    THEN IsTrue(fres.value)
                    ELSE IsFalse(fres.value)

\* core_halted returned true on a DSU_CTRL with PE alone
C14_Witness ==
    /\ FacReturned("core_halted")
    /\ Len(bus) = 1
    /\ bus[1].value = <<0, 512>>
    /\ fres.status = "Ok"
    /\ IsTrue(fres.value)

\* C15: read_dsu_reg, write_dsu_reg and modify_dsu_reg of a core index above
\* 15 return CoreOutOfRange at once, and no bus access is made
C15_CoreOutOfRange ==
    (fac.name \in RegOps /\ fac.core > 15) =>
        /\ fac.phase = "returned"
        /\ fres.status = "CoreOutOfRange"
        /\ bus = <<>>

\* modify_dsu_reg of core 16 has returned CoreOutOfRange
C15_Witness ==
    /\ FacReturned("modify_dsu_reg")
    /\ fac.core = 16
    /\ fres.status = "CoreOutOfRange"

\* base + k * 0x10_0000 + offset for the base 0x9000_0000 and the offsets of
\* section 4.2.1
ExpectedAddress(reg, k) ==
    LET off == CASE reg = "DsuCtrl" -> 0
                 [] reg = "DsuBrss" -> 32
                 [] reg = "DsuDbgm" -> 36
                 [] reg = "DsuDtr" -> 4194336
                 [] reg = "Psr" -> 4194308
    IN <<36864 + 16 * k + (off \div 65536), off % 65536>>

\* C16: every bus access of read_dsu_reg, write_dsu_reg and modify_dsu_reg for
\* a register type R and a core k <= 15 is an access to the word at
\* base + k * 0x10_0000 + R::offset, and the operation makes such an access
C16_RegisterAddress ==
    (fac.name \in RegOps /\ fac.core <= 15) =>
        /\ \A j \in 1..Len(bus) : bus[j].address = ExpectedAddress(fac.reg, fac.core)
        /\ fac.phase = "returned" => Len(bus) >= 1
        /\ (fac.phase = "returned" /\ fac.name = "read_dsu_reg" /\ fres.status = "Ok") =>
              fres.value = bus[1].value
        /\ (fac.phase = "returned" /\ fac.name = "write_dsu_reg") =>
              bus[1].kind = "Write" /\ bus[1].value = fac.val

\* read_dsu_reg::<DsuDtr> of core 15 read the word at 0x9040_0020, which is
\* base + offset, the address of the register of core 0
C16_CoreIndexIgnored ==
    /\ FacReturned("read_dsu_reg")
    /\ fac.reg = "DsuDtr"
    /\ fac.core = 15
    /\ fres.status = "Ok"
    /\ Len(bus) = 1
    /\ bus[1].address = <<36928, 32>>
    /\ bus[1].address # ExpectedAddress("DsuDtr", 15)

\* the bit a closure sets: BW (bit 2), BN[k] (bit k), HL (bit 10)
BitSetBy(fn, k) ==
    CASE fn = "set_bw" -> 2
      [] fn = "set_bn" -> k
      [] fn = "swap_hl" -> 10

\* w is r with bit b set and every other bit as in r
SameButBit(w, r, b) ==
    \A i \in 0..31 : BitOf(w, i) = IF i = b THEN 1 ELSE BitOf(r, i)

\* C17: modify_dsu_reg for a core k <= 15 makes one read of R and then, if
\* the read succeeded, one write to the same address of the value read as the
\* closure left it, every bit the closure does not touch being as read; it
\* returns what the closure returned; if the read fails it makes no write and
\* returns the failure
C17_ModifyReadThenWrite ==
    (fac.name = "modify_dsu_reg" /\ fac.core <= 15) =>
        /\ Len(bus) <= 2
        /\ Len(bus) >= 1 => IsAccess(1, "Read", fac.reg)
        /\ Len(bus) = 2 =>
              /\ bus[1].status = "Ok"
              /\ IsAccess(2, "Write", fac.reg)
              /\ SameButBit(bus[2].value, bus[1].value, BitSetBy(fac.fn, fac.core))
        /\ fac.phase = "returned" =>
              /\ Len(bus) >= 1
              /\ bus[1].status = "Ok" => Len(bus) = 2
              /\ fres.status = bus[Len(bus)].status
              /\ (fres.status = "Ok" /\ fac.fn = "swap_hl") =>
                    IF BitOf(bus[1].value, 10) = 1
                    THEN IsTrue(fres.value)
                    ELSE IsFalse(fres.value)

\* modify_dsu_reg::<DsuCtrl>(set_bw) read PW|DM, wrote PW|DM|BW and returned Ok
C17_Witness ==
    /\ FacReturned("modify_dsu_reg")
    /\ fac.fn = "set_bw"
    /\ fres.status = "Ok"
    /\ Len(bus) = 2
    /\ bus[1].value = <<0, 2112>>
    /\ bus[2].value = <<0, 2116>>

\* an operation returned an error to its caller: neither Ok nor a panic
ReturnedError == fres.status \notin {"None", "Ok", "Panic"}

NoBrssWrite ==
    \A j \in 1..Len(bus) : ~(bus[j].kind = "Write" /\ bus[j].address = AddressOf("DsuBrss", fac.core))

\* C19: run, called while DSU_CTRL of the core has PE set, returns an error
\* and makes no write to DSU_BRSS
C19_RunRefusesInErrorMode ==
    (FacReturned("run") /\ BitOf(fac.val, 9) = 1) =>
        /\ ReturnedError
        /\ NoBrssWrite

\* run, called while DSU_CTRL has PE set, panicked
C19_RunPanics ==
    /\ FacReturned("run")
    /\ BitOf(fac.val, 9) = 1
    /\ fres.status = "Panic"
    /\ bus = <<>>

\* C20: each unimplemented operation (run, reset, step, reset_and_halt, the
\* breakpoint operations, FPU register read and write) returns a "not
\* implemented" error to its caller, and makes no bus access
C20_NotImplementedError ==
    (fac.name \in Unimplemented /\ fac.phase = "returned") =>
        /\ fres.status = "NotImplemented"
        /\ bus = <<>>

\* a read of an FPU register panicked
C20_FpuReadPanics ==
    /\ FacReturned("read_fpu_reg")
    /\ fres.status = "Panic"
    /\ bus = <<>>

(***************************************************************************)
(* Properties of the register id decoder.                                  *)
(***************************************************************************)
\* the fields of a 16-bit id as section 4.2.3 lays them out
IdClass(x) == x \div 4096

IdBank(x) == (x \div 256) % 16

IdLow(x) == x % 256

\* the ids that the claim says decode
Accepted(x) ==
    \/ IdClass(x) = 0 /\ IdBank(x) \in 0..3 /\ IdLow(x) \in 0..7
    \/ IdClass(x) = 1 /\ IdLow(x) \in (0..7) \cup (32..47)
    \/ IdClass(x) = 2

\* C18: decoding a 16-bit id succeeds exactly for class 0 with bank 0..3 and
\* index 0..7, class 1 with selector 0..7 or 32..47, and class 2 with any
\* index; every other id yields InvalidRegisterId.  A decoded id has the
\* class of its class field, and selector s in 32..47 is ASR(s - 16)
C18_DecodeRanges ==
    decoded # NoDecoded =>
        /\ Accepted(rid) <=> decoded.class # "InvalidRegisterId"
        /\ ~Accepted(rid) => decoded = InvalidRegisterId
        /\ Accepted(rid) =>
              /\ decoded.class = CASE IdClass(rid) = 0 -> "IuCore"
                                    [] IdClass(rid) = 1 -> "IuSpecial"
                                    [] IdClass(rid) = 2 -> "Fpu"
              /\ IdClass(rid) = 0 =>
                    /\ decoded.n = IdLow(rid)
                    /\ decoded.reg = <<"G", "O", "L", "I">>[IdBank(rid) + 1]
              /\ (IdClass(rid) = 1 /\ IdLow(rid) >= 32) =>
                    decoded.reg = "ASR" /\ decoded.n = IdLow(rid) - 16 /\ decoded.n \in 16..31
              /\ (IdClass(rid) = 1 /\ IdLow(rid) <= 7) =>
                    decoded.reg = <<"Y", "PSR", "WIM", "TBR", "PC", "NPC", "FSR", "CPSR">>[IdLow(rid) + 1]
              /\ IdClass(rid) = 2 => decoded.n = IdLow(rid)

\* the id 0x102F decoded as ASR31, and so did not take the error path
C18_Witness ==
    /\ rid = 4143
    /\ decoded = Decoded("IuSpecial", "ASR", 31)

(***************************************************************************)
(* Properties of byte and halfword accesses and of the shifted words.      *)
(***************************************************************************)
SmallOp == op.api \in {"read_16", "write_16", "read_8", "write_8"}

\* the number of ADATA shifts before entry q of the log
AdatasBefore(q) == AdataCount(Before(q))

\* entry q of the log is a DDATA shift that completed
CompletedAt(q) == IsDdata(log[q]) /\ log[q].done /\ ~log[q].err

\* C21: a byte or halfword array access runs one transaction per element in
\* ascending order: the i-th ADATA shift (from 0) is for address + i * width
\* with the width and kind of the access and starts only after the previous
\* transaction completed, every DDATA shift carries SEQ = 0 and follows an
\* ADATA shift, a completed DDATA shift is followed by no further DDATA shift
\* of the same transaction, and a successful access of N elements made N
\* ADATA shifts
C21_SingleShot ==
    SmallOp =>
        /\ \A q \in 1..Len(log) :
              /\ IsAdata(log[q]) =>
                    /\ WireLow(log[q].bytes)
                         = AddW(op.address, FromInt(ApiWidth(op.api) * AdatasBefore(q)))
                    /\ WireSize(log[q].bytes) = TransactionSize_encode(ApiSize(op.api))
                    /\ WireKind(log[q].bytes) = TransactionKind_encode(ApiKind(op.api))
                    /\ q > 1 => CompletedAt(q - 1)
              /\ IsDdata(log[q]) =>
                    /\ WireSeq(log[q].bytes) = 0
                    /\ q > 1
                    /\ IsDdata(log[q - 1]) => ~CompletedAt(q - 1)
        /\ (Finished /\ outcome.status = "Ok") => AdataCount(log) = op.n

\* a halfword write of three elements completed with three ADATA shifts,
\* one of its elements having been polled more than once
C21_Witness ==
    /\ Finished
    /\ op.api = "write_16"
    /\ outcome.status = "Ok"
    /\ op.n = 3
    /\ AdataCount(log) = 3
    /\ \E q \in 2..Len(log) : IsDdata(log[q]) /\ IsDdata(log[q - 1])

\* the value of the element served by entry q of the log of a write
ElemOf(q) == op.wdata[log[q].elem + 1]

\* C22: a halfword or byte write carries its value right-justified in the
\* 32-bit data field of its DDATA shifts, which carry SEQ = 0 and follow one
\* ADATA shift encoding (Write, width, address); write16(0x2, 0x1234) carries
\* the data field 0x0000_1234
C22_RightJustifiedWrite ==
    (op.api \in {"write_16", "write_8"}) =>
        \A q \in 1..Len(log) :
            /\ IsAdata(log[q]) =>
                  /\ WireKind(log[q].bytes) = 1
                  /\ WireSize(log[q].bytes) = (IF op.api = "write_16" THEN 1 ELSE 0)
            /\ IsDdata(log[q]) =>
                  /\ WireSeq(log[q].bytes) = 0
                  /\ WireLow(log[q].bytes) = ElemOf(q)

\* write16(0x2, 0x1234) completed with one ADATA shift (Write, Halfword, 0x2)
\* and a DDATA shift with SEQ = 0 whose data field is 0x1234_0000
C22_LeftJustifiedHalfword ==
    /\ Finished
    /\ op.api = "write_16"
    /\ op.address = <<0, 2>>
    /\ op.wdata = << <<0, 4660>> >>
    /\ outcome.status = "Ok"
    /\ AdataCount(log) = 1
    /\ log[1].bytes = <<5, 0, 0, 0, 2>>
    /\ WireSeq(log[Len(log)].bytes) = 0
    /\ WireLow(log[Len(log)].bytes) = <<4660, 0>>

\* the code of the kind of the operation in the ADATA word: 0 read, 1 write
KindCode == IF op.api \in ReadApis THEN 0 ELSE 1

\* the code of the width of the operation: 0 byte, 1 halfword, 2 word
WidthCode ==
    CASE ApiWidth(op.api) = 1 -> 0
      [] ApiWidth(op.api) = 2 -> 1
      [] ApiWidth(op.api) \in {4, 8} -> 2

\* C23: every ADATA shift is 35 bits long and its 5-byte buffer, read as one
\* big-endian number, is kind * 2^34 + width * 2^32 + address: the first byte
\* is kind * 4 + width (so nothing lies above bit 34) and the four bytes after
\* it are the address the shift is for, most significant byte first
C23_AdataWord ==
    \A q \in 1..Len(log) :
        IsAdata(log[q]) =>
            /\ log[q].len = 35
            /\ Len(log[q].bytes) = 5
            /\ log[q].bytes[1] = KindCode * 4 + WidthCode
            /\ \A b \in 2..5 : log[q].bytes[b] \in 0..255
            /\ (log[q].bytes[2] * 256 + log[q].bytes[3]) = AdataAddress(op, log[q].elem)[1]
            /\ (log[q].bytes[4] * 256 + log[q].bytes[5]) = AdataAddress(op, log[q].elem)[2]

\* a halfword write to 0xFFFF_FFFE shifted the ADATA buffer 05 FF FF FF FE and
\* a word read from 0x3FC the buffer 02 00 00 03 FC
C23_Witness ==
    /\ Len(log) >= 1
    /\ IsAdata(log[1])
    /\ \/ op.api = "write_16" /\ log[1].bytes = <<5, 255, 255, 255, 254>>
       \/ op.api = "read_32" /\ log[1].bytes = <<2, 0, 0, 3, 252>>

\* bits 0..7, 0..15 or 0..31 of the 32-bit payload `bits` of a response
LowBits(bits, size) ==
    CASE size = "U8" -> <<0, bits[2] % 256>>
      [] size = "U16" -> <<0, bits[2]>>
      [] size = "U32" -> bits

\* C24: every DDATA shift is 33 bits long; its buffer carries SEQ in bit 32
\* and in bits 31..0 zero for a read and the word for a word write; a read
\* whose response has DONE = 1 returns bits 0..7 of the response for a byte,
\* bits 0..15 for a halfword and bits 0..31 for a word
C24_DdataWord ==
    \A q \in 1..Len(log) :
        IsDdata(log[q]) =>
            /\ log[q].len = 33
            /\ Len(log[q].bytes) = 5
            /\ log[q].bytes[1] = (IF SeqFor(op, log[q].elem) = "LastTransaction" THEN 0 ELSE 1)
            /\ op.api \in ReadApis => WireLow(log[q].bytes) = <<0, 0>>
            /\ (op.api \in WriteApis /\ WordOp) => WireLow(log[q].bytes) = ElemOf(q)
            /\ (op.api \in ReadApis /\ CompletedAt(q)) =>
                  rbuf[log[q].elem + 1] = LowBits(log[q].data, ApiSize(op.api))

\* a halfword read answered DONE = 1 with payload 0xDEAD_BEEF returned 0xDEAD,
\* bits 16..31 of the response
C24_HalfwordFromHighBits ==
    /\ Finished
    /\ op.api = "read_16"
    /\ op.n = 1
    /\ outcome.status = "Ok"
    /\ CompletedAt(Len(log))
    /\ log[Len(log)].data = <<57005, 48879>>
    /\ outcome.value = << <<0, 57005>> >>

(***************************************************************************)
(* Properties of wait_for_core_halted and of the core register accesses.   *)
(***************************************************************************)
Waiting == fac.name = "wait_for_core_halted" /\ fac.core <= 15

\* C25: wait_for_core_halted polls DSU_CTRL and nothing else; it returns Ok
\* exactly at the first poll that shows the core halted, whatever the clock,
\* and, no poll failing, Timeout exactly at the first poll that shows it
\* running at or after the deadline; it returns only after a poll; and while
\* each sleep takes at least one clock unit it makes at most timeout + 1 polls
C25_WaitForCoreHalted ==
    Waiting =>
        /\ \A j \in 1..Len(bus) :
              /\ bus[j].kind = "Read"
              /\ bus[j].address = AddressOf("DsuCtrl", fac.core)
              /\ j < Len(bus) =>
                    /\ bus[j].status = "Ok"
                    /\ ~ShowsHalt(bus[j].value)
                    /\ bus[j].at < fac.timeout
                    /\ bus[j].at < bus[j + 1].at
        /\ Len(bus) <= fac.timeout + 1
        /\ fac.phase = "returned" =>
              /\ Len(bus) >= 1
              /\ LET last == bus[Len(bus)]
                 IN /\ fres.status = "Ok" <=> (last.status = "Ok" /\ ShowsHalt(last.value))
                    /\ fres.status = "Timeout" <=>
                          \/ last.status = "Timeout"
                          \/ /\ last.status = "Ok"
                             /\ ~ShowsHalt(last.value)
                             /\ last.at >= fac.timeout
                    /\ (last.status = "Ok" /\ ~ShowsHalt(last.value)) => last.at >= fac.timeout
        /\ (fac.phase # "returned" /\ Len(bus) >= 1) =>
              /\ bus[Len(bus)].status = "Ok"
              /\ ~ShowsHalt(bus[Len(bus)].value)
              /\ bus[Len(bus)].at < fac.timeout

\* with a zero timeout the first poll found the core halted and the wait
\* returned Ok
C25_Witness ==
    /\ Waiting
    /\ fac.phase = "returned"
    /\ fac.timeout = 0
    /\ Len(bus) = 1
    /\ fres.status = "Ok"

\* the kind of bus access by which the operation reaches the register
RegAccessKind == IF fac.name = "write_core_reg" THEN "Write" ELSE "Read"

\* entry j of the bus log is an access to the register file of the core
InRegisterFile(j) ==
    \E bank \in {"G", "O", "L", "I"}, n \in 0..7, w \in 0..31 :
        bus[j].address = CoreBlockAddress(fac.core, SlotOffset(bank, n, w))

\* C26: a read or write of a class 0 register first reads PSR and then, only
\* if that read succeeded, accesses the register's slot in the window PSR.CWP
\* names, and makes no other access; a read or write of a class 1 register
\* makes one access, to the register itself
C26_PsrBeforeSlot ==
    (fac.name \in CoreRegOps /\ fac.core <= 15) =>
        /\ fac.creg.class = "IuCore" =>
              /\ Len(bus) <= 2
              /\ Len(bus) >= 1 =>
                    /\ bus[1].kind = "Read"
                    /\ bus[1].address = AddressOf("Psr", fac.core)
                    /\ ~InRegisterFile(1)
              /\ Len(bus) = 2 =>
                    /\ bus[1].status = "Ok"
                    /\ bus[2].kind = RegAccessKind
                    /\ bus[2].address
                         = CoreBlockAddress(fac.core,
                                            SlotOffset(fac.creg.reg, fac.creg.n, bus[1].value[2] % 32))
                    /\ InRegisterFile(2)
              /\ (fac.phase = "returned" /\ fres.status = "Ok") => Len(bus) = 2
              /\ (fac.phase = "returned" /\ Len(bus) = 1) => fres.status = bus[1].status
        /\ fac.creg.class = "IuSpecial" =>
              /\ Len(bus) <= 1
              /\ Len(bus) = 1 =>
                    /\ bus[1].kind = RegAccessKind
                    /\ bus[1].address
                         = AddressOf(IF fac.creg.reg = "PSR" THEN "Psr" ELSE fac.creg.reg,
                                     fac.core)
              /\ fac.phase = "returned" => Len(bus) = 1

\* a write of %i3 returned Ok after a read of PSR that showed CWP = 7 and a
\* write to the slot of %i3 in window 7
C26_Witness ==
    /\ FacReturned("write_core_reg")
    /\ fac.creg = Decoded("IuCore", "I", 3)
    /\ fres.status = "Ok"
    /\ Len(bus) = 2
    /\ bus[1].value[2] % 32 = 7
    /\ bus[2].kind = "Write"
    /\ InRegisterFile(2)

(***************************************************************************)
(* Properties of the open transaction over sequences of operations.        *)
(***************************************************************************)
\* the transaction an operation opens
OwnState == [kind |-> ApiKind(op.api), size |-> ApiSize(op.api)]

\* C27: whenever the bridge is about to issue a DDATA shift, whatever the
\* operations before it left behind, a transaction is open, of the kind of
\* the operation (Write for a write, Read for a read) and of the width of its
\* payload; and once an operation has shifted anything, none of the
\* assertions on the open transaction, of the unreachable branches of the
\* polling loops and of the panics on the kind of value read fires
C27_DdataWhileOpen ==
    /\ pc = "ddata" =>
          /\ state.kind # None
          /\ state.kind = (IF op.api \in WriteApis THEN "Write" ELSE "Read")
          /\ state.size = ApiSize(op.api)
          /\ op.api \in WriteApis => ElemData(op, idx).size = state.size
    /\ outcome.status = "Panic" => log = <<>>

\* a halfword write has polled DDATA without completion and is about to poll
\* again, its transaction open
C27_Witness ==
    /\ pc = "ddata"
    /\ op.api = "write_16"
    /\ Len(log) >= 2
    /\ IsDdata(log[Len(log)])
    /\ ~log[Len(log)].done
    /\ state = [kind |-> "Write", size |-> "U16"]

\* the size code of the last ADATA shift before entry q of the log that was
\* answered without error (3 if there is none)
OpenSizeBefore(q) ==
    LET P == {p \in 1..(q - 1) : IsAdata(log[p]) /\ ~log[p].err}
    IN IF P = {} THEN 3 ELSE WireSize(log[CHOOSE p \in P : \A r \in P : r <= p].bytes)

\* C28: a DDATA shift with SEQ = 1 is issued only while a word transaction is
\* open: the bridge is about to issue one only with an open width of U32, and
\* every one it issued follows, within its operation, an ADATA shift that
\* announced a word
C28_SequentialOnlyWord ==
    /\ (pc = "ddata" /\ SeqFor(op, idx) = "ContinuingTransaction") =>
          (state.kind # None /\ state.size = "U32")
    /\ \A q \in 1..Len(log) :
          (IsDdata(log[q]) /\ WireSeq(log[q].bytes) = 1) =>
              /\ OpenSizeBefore(q) = 2
              /\ WordOp

\* a word write holds a word transaction open and has issued a DDATA shift
\* with SEQ = 1 that did not complete yet
C28_Witness ==
    /\ pc = "ddata"
    /\ op.api = "write_32"
    /\ state = [kind |-> "Write", size |-> "U32"]
    /\ Len(log) >= 2
    /\ IsDdata(log[Len(log)])
    /\ WireSeq(log[Len(log)].bytes) = 1

\* the kind and the size an ADATA buffer announces
KindOfWire(bytes) == IF WireKind(bytes) = 1 THEN "Write" ELSE "Read"

SizeOfWire(bytes) ==
    CASE WireSize(bytes) = 0 -> "U8"
      [] WireSize(bytes) = 1 -> "U16"
      [] WireSize(bytes) = 2 -> "U32"

\* this step issues one shift
ShiftStep == Len(log') = Len(log) + 1 /\ SubSeq(log', 1, Len(log)) = log

\* the shift of this step
Shifted == log'[Len(log')]

\* an ADATA shift answered without error opens the transaction it announces; a
\* DDATA shift that completes leaves the transaction as it is when it carries
\* SEQ = 1 and closes it when it carries SEQ = 0
StateFollowsShift ==
    ShiftStep =>
        /\ (IsAdata(Shifted) /\ ~Shifted.err) =>
              state' = [kind |-> KindOfWire(Shifted.bytes), size |-> SizeOfWire(Shifted.bytes)]
        /\ (IsDdata(Shifted) /\ Shifted.done /\ ~Shifted.err) =>
              /\ WireSeq(Shifted.bytes) = 1 => (state' = state /\ state.kind # None)
              /\ WireSeq(Shifted.bytes) = 0 => state' = NoState

\* an operation that made shifts and returned Ok left no transaction open
ClosedAfterOk ==
    (Finished /\ outcome.status = "Ok" /\ log # <<>>) => state = NoState

\* C29: the open transaction is set to the kind and width of each ADATA shift
\* answered without error, is left as it is by a completed DDATA shift with
\* SEQ = 1 and is cleared by a completed DDATA shift with SEQ = 0; an operation
\* that made shifts and returned Ok leaves no transaction open
C29_StateTransitions == [][StateFollowsShift]_vars /\ []ClosedAfterOk

\* a word write of three words over a block boundary returned Ok with no
\* transaction open, having completed DDATA shifts with SEQ = 1 and SEQ = 0
C29_Witness ==
    /\ Finished
    /\ op.api = "write_32"
    /\ op.n = 3
    /\ outcome.status = "Ok"
    /\ AdataCount(log) = 2
    /\ state = NoState
    /\ \E q \in 1..Len(log) : CompletedAt(q) /\ WireSeq(log[q].bytes) = 1

\* C30: an operation that makes shifts begins with an ADATA shift, each of
\* its DDATA shifts follows an ADATA shift of its own that was answered
\* without error, and when it found a transaction left open by an operation
\* that failed, it polls DDATA under the transaction it opened itself
C30_FreshAdata ==
    /\ Len(log) >= 1 => IsAdata(log[1])
    /\ \A q \in 1..Len(log) : IsDdata(log[q]) => OpenSizeBefore(q) # 3
    /\ (pc = "ddata" /\ op.found.kind # None) => state = OwnState

\* a byte read that found the word write transaction of a failed operation
\* open has shifted ADATA and polls DDATA under (Read, U8)
C30_Witness ==
    /\ pc = "ddata"
    /\ op.api = "read_8"
    /\ op.found = [kind |-> "Write", size |-> "U32"]
    /\ Len(log) = 1
    /\ IsAdata(log[1])
    /\ state = [kind |-> "Read", size |-> "U8"]

(***************************************************************************)
(* Properties of failed transfers.                                         *)
(***************************************************************************)
\* the number of ADATA shifts that elements 0..i of the operation need
AdatasUpTo(i) ==
    IF WordOp
    THEN Cardinality(WordBlocks(op.address, i + 1))
    ELSE i + 1

\* C31: a DDATA shift that does not complete is followed, if by anything, by
\* another DDATA shift for the same element; an operation that returned
\* Timeout ended with such a shift, for the element it had reached, after
\* completing each earlier element once and with the ADATA shifts of the
\* elements up to that one only: nothing was shifted for the rest
C31_TimeoutStops ==
    /\ \A q \in 1..(Len(log) - 1) :
          (IsDdata(log[q]) /\ ~CompletedAt(q)) =>
              /\ ~log[q].err
              /\ IsDdata(log[q + 1])
              /\ log[q + 1].elem = log[q].elem
    /\ (Finished /\ outcome.status = "Timeout") =>
          /\ log # <<>>
          /\ IsDdata(log[Len(log)])
          /\ ~log[Len(log)].done
          /\ ~log[Len(log)].err
          /\ log[Len(log)].elem = idx
          /\ \A q \in 1..Len(log) : log[q].elem <= idx
          /\ Cardinality({q \in 1..Len(log) : CompletedAt(q)}) = idx
          /\ AdataCount(log) = AdatasUpTo(idx)

\* a word read of three words over a block boundary returned Timeout on its
\* first word: one ADATA shift, no shift for the second run
C31_Witness ==
    /\ Finished
    /\ op.api = "read_32"
    /\ op.n = 3
    /\ Cardinality(WordBlocks(op.address, op.n)) = 2
    /\ outcome.status = "Timeout"
    /\ idx = 0
    /\ AdataCount(log) = 1

\* the position of the last ADATA shift before entry q of the log
RunStart(q) == CHOOSE p \in 1..(q - 1) : IsAdata(log[p]) /\ \A r \in (p + 1)..(q - 1) : ~IsAdata(log[r])

\* the number of DDATA shifts that completed after entry p and before entry q
CompletedBetween(p, q) == Cardinality({r \in (p + 1)..(q - 1) : CompletedAt(r)})

\* the first byte of the 1 KiB block of address a
BlockStart(a) == <<a[1], (a[2] \div 1024) * 1024>>

\* C32: in a word operation the ADATA shift of each run carries the address
\* of the first word of the run, address + 4 * i0 with i0 the smallest index
\* whose word lies in the run's block, which is the larger of address and
\* the first byte of that block; and the k-th transfer completed in the run
\* (from 0) is that of element i0 + k of the vector: a write carries that
\* element and a read stores into it
C32_RunStartAddress ==
    WordOp =>
        \A q \in 1..Len(log) :
            /\ IsAdata(log[q]) =>
                  LET i0 == log[q].elem
                      a == WordAddress(op.address, i0)
                  IN /\ WireLow(log[q].bytes) = a
                     /\ i0 > 0 => BlockOf(WordAddress(op.address, i0 - 1)) # BlockOf(a)
                     /\ a = (IF LessEqW(BlockStart(a), op.address)
                             THEN op.address
                             ELSE BlockStart(a))
                     /\ i0 = CompletedBetween(0, q)
            /\ CompletedAt(q) =>
                  LET p == RunStart(q)
                      i == log[p].elem + CompletedBetween(p, q)
                  IN /\ log[q].elem = i
                     /\ op.api \in WriteApis => WireLow(log[q].bytes) = op.wdata[i + 1]
                     /\ op.api \in ReadApis => (Len(rbuf) > i /\ rbuf[i + 1] = log[q].data)

\* a word write of three words from 0x3F8 completed: its second run was
\* addressed at 0x400 and carried the third word
C32_Witness ==
    /\ Finished
    /\ op.api = "write_32"
    /\ op.address = <<0, 1016>>
    /\ op.n = 3
    /\ outcome.status = "Ok"
    /\ \E q \in 1..Len(log) :
          /\ IsAdata(log[q])
          /\ WireLow(log[q].bytes) = <<0, 1024>>
          /\ log[q].elem = 2
    /\ WireLow(log[Len(log)].bytes) = op.wdata[3]

\* the DDATA shifts made for element i
PollsOf(i) == Cardinality({q \in 1..Len(log) : IsDdata(log[q]) /\ log[q].elem = i})

\* the number of DDATA shifts of the operation
DdataCount == Cardinality({q \in 1..Len(log) : IsDdata(log[q])})

\* C33: the poll clock is that of the word being transferred: it stands at
\* zero before the first DDATA shift of each word and afterwards counts the
\* time of the shifts made for that word only (each takes between 1 and
\* MaxShiftTime); an operation returns Timeout only when the shifts of one
\* word took longer than the timeout without DONE, so one whose every word
\* completes within the timeout does not return Timeout, however many words
\* and shifts it takes
C33_DeadlinePerWord ==
    /\ pc = "ddata" =>
          /\ PollsOf(idx) = 0 <=> elapsed = 0
          /\ PollsOf(idx) <= elapsed
          /\ elapsed <= PollsOf(idx) * MaxShiftTime
          /\ elapsed <= JTAG_TIMEOUT
    /\ (Finished /\ outcome.status = "Timeout") =>
          /\ elapsed > JTAG_TIMEOUT
          /\ PollsOf(idx) <= elapsed
          /\ elapsed <= PollsOf(idx) * MaxShiftTime
          /\ \A q \in 1..Len(log) : (IsDdata(log[q]) /\ log[q].elem = idx) => ~log[q].done
    /\ (Finished /\ outcome.status = "Ok" /\ log # <<>>) => elapsed <= PollsOf(idx) * MaxShiftTime

\* a word read of three words returned Ok after six DDATA shifts or more,
\* which took at least six clock units, three times the timeout
C33_Witness ==
    /\ Finished
    /\ op.api = "read_32"
    /\ op.n = 3
    /\ outcome.status = "Ok"
    /\ DdataCount >= 3 * JTAG_TIMEOUT
    /\ \A i \in 0..2 : PollsOf(i) = 2

(***************************************************************************)
(* Properties of the first attach after a failure.                         *)
(***************************************************************************)
\* C34: the flag of the first attach is true only once a read-modify-write of
\* DSU_CTRL that sets BW has succeeded, and every attach made before such a
\* success attempts the initialisation
C34_FlagOnlyAfterSuccess ==
    /\ coreInit => \E i \in 1..Len(taskLog) : taskLog[i].wrote
    /\ \A i \in 1..Len(taskLog) :
          (\A j \in 1..(i - 1) : ~taskLog[j].wrote) => taskLog[i].first

\* a second attach returned without any traffic and with the flag set, the
\* first attach having failed before it wrote DSU_CTRL
C34_FlagSetAfterFailure ==
    /\ AttachReturned
    /\ coreInit
    /\ Len(taskLog) = 2
    /\ ~taskLog[1].wrote
    /\ ~taskLog[2].first
    /\ ~taskLog[2].wrote
    /\ log = <<>>

(***************************************************************************)
(* Properties of status() while the target changes.                        *)
(***************************************************************************)
\* the DSU_BRSS value a status() call read (zero when it read none)
BrssRead == IF Len(bus) >= 3 THEN bus[3].value ELSE <<0, 0>>

\* C35: a status() call whose bus accesses succeed returns the status derived
\* from one of the DSU_CTRL values it read (and from the DSU_BRSS value it
\* read), whatever the target did between its reads
C35_StatusFromOneSnapshot ==
    (FacReturned("status") /\ fac.core <= 15 /\ AllAccessesOk) =>
        /\ fres.status = "Ok"
        /\ \E j \in 1..Len(bus) :
              /\ IsAccess(j, "Read", "DsuCtrl")
              /\ fres.label = DerivedStatus(bus[j].value, BrssRead, fac.core)

\* status() returned Halted(Unknown): its first read of DSU_CTRL showed the
\* core running, its second read, made by core_halted, showed PE, and
\* DSU_BRSS showed no single step
C35_MixedSnapshot ==
    /\ FacReturned("status")
    /\ fac.core = 0
    /\ AllAccessesOk
    /\ Len(bus) = 3
    /\ bus[1].value = <<0, 0>>
    /\ bus[2].value = <<0, 512>>
    /\ bus[3].value = <<0, 0>>
    /\ fres.label = "Halted(Unknown)"

(***************************************************************************)
(* Properties of probe errors.                                             *)
(***************************************************************************)
\* a shift the probe answered with an error ends the operation with a probe
\* error and leaves the open transaction as it was
ErrorEndsOperation ==
    (ShiftStep /\ Shifted.err) =>
        /\ state' = state
        /\ pc' = "done"
        /\ outcome'.status = "DebugProbe"
        /\ outcome'.value = <<>>

\* no shift follows a shift the probe answered with an error
NothingAfterError ==
    /\ \A q \in 1..(Len(log) - 1) : ~log[q].err
    /\ (log # <<>> /\ log[Len(log)].err) => (Finished /\ outcome.status = "DebugProbe")

\* C36: a probe error on an ADATA shift or on a DDATA shift ends the operation
\* at once with a probe error: no further shift is issued (no DDATA shift after
\* a failed ADATA shift) and the open transaction is left unchanged
C36_ProbeErrorEnds == [][ErrorEndsOperation]_vars /\ []NothingAfterError

\* a halfword read found a word write left open by an earlier operation; its
\* ADATA shift got a probe error, the operation returned the probe error with
\* the word write still open and no DDATA shift made
C36_Witness ==
    /\ Finished
    /\ op.api = "read_16"
    /\ outcome.status = "DebugProbe"
    /\ Len(log) = 1
    /\ IsAdata(log[1])
    /\ log[1].err
    /\ state = [kind |-> "Write", size |-> "U32"]

(***************************************************************************)
(* Properties of the register id encoding.                                 *)
(***************************************************************************)
\* decoding the id of a register of the valid ranges gives that register
DecodeInvertsEncode ==
    (enc.made /\ enc.id = rid /\ decoded # NoDecoded) => decoded = enc.reg

\* the register decoded from an id is encoded as that id
EncodeInvertsDecode ==
    (decoded \notin {NoDecoded, InvalidRegisterId} /\ enc.made) => enc.id = rid

\* C37: to_u16 and try_from are mutually inverse: decode(encode(r)) = r for
\* every register of the valid ranges, and encode(decode(x)) = x for every
\* 16-bit id x that the decoder accepts
C37_MutuallyInverse == DecodeInvertsEncode /\ EncodeInvertsDecode

\* the id 0x1F04 decoded as PC, whose id is 0x1004
C37_NonCanonicalAccepted ==
    /\ rid = 7940
    /\ decoded = Decoded("IuSpecial", "PC", 0)
    /\ enc = [reg |-> decoded, id |-> 4100, made |-> TRUE]

(***************************************************************************)
(* Properties of the bridge's 32-bit arithmetic.                           *)
(***************************************************************************)
\* the width of the elements the bridge transfers for the operation
ElemWidth(o) ==
    CASE ApiSize(o.api) = "U32" -> 4
      [] ApiSize(o.api) = "U16" -> 2
      [] ApiSize(o.api) = "U8" -> 1

\* a call that made no shift is waiting for its first shift or returned from
\* its checks, with Ok for an empty array or with one of their two errors
ChecksDecide ==
    (op.api \in Apis /\ pc # "idle" /\ log = <<>>) =>
        outcome.status \in {"Running", "Ok", "OutOfBounds", "MemoryNotAligned"}

\* the element addresses and the run starts of an accepted call fit in 32 bits
AddressesFit ==
    (op.api \in Apis /\ op.n > 0) =>
        \A i \in 0..(op.n - 1) :
            /\ IsU32(AddW(op.address, FromInt(ElemWidth(op) * i)))
            /\ IsU32(AdataAddress(op, i))
            /\ ApiSize(op.api) = "U32" => IsU32(MulBoundary(ChunkKey(op.address, i)))

\* C38: the bridge's unsigned 32-bit arithmetic never wraps or aborts: the
\* byte count of a call is accepted or rejected with OutOfBounds (or the call
\* is rejected as misaligned before), and every element address and every run
\* start of an accepted call is below 2^32
C38_NoWrapNoAbort == ChecksDecide /\ AddressesFit

\* a word write of 2^30 words, 2^32 bytes, at 0x3F8 ended in the panic of the
\* conversion of its byte count, having made no shift
C38_ByteCountAborts ==
    /\ Finished
    /\ op.api = "write_32"
    /\ op.address = <<0, 1016>>
    /\ op.len = Oversize("write_32")
    /\ outcome.status = "Panic"
    /\ log = <<>>

====
